---- MODULE Spec2Model ----
(***************************************************************************)
(* 0g-kit: the retry executor (utils/retry), the connection manager        *)
(* (core/client, the variant with the identity registry and the persisted  *)
(* activation record) and the request orchestrator (core/inference).       *)
(*                                                                         *)
(* JavaScript runs the code of one process on one thread: an action of     *)
(* this model is the code an async function runs between two suspension    *)
(* points (await).  External collaborators (the RPC endpoint, the broker   *)
(* SDK, the ledger, the HTTP endpoint) answer nondeterministically.        *)
(***************************************************************************)
EXTENDS Integers, Sequences, FiniteSets, TLC

(* ------------------------------ bounds -------------------------------- *)
\* concurrent callers (async call chains) of one process
NumTasks == 2
\* largest retry budget a caller configures or passes
MaxRetries == 2
\* process restarts (the persisted store survives, the memory does not)
MaxRestarts == 1
\* _doInit sequences started in one process
MaxRuns == 2
\* largest attempt budget and initial delay given to the withRetry call under test
MaxAttempts == 5
MaxDelay == 3

(* ------------------------- program constants -------------------------- *)
\* retries: 3 of the constructor's defaults
DefaultRetries == 3
\* timeout: 3000000 of the constructor's defaults
DefaultTimeout == 3000000

Tasks == 1 .. NumTasks
PrivateKeys == {1, 2}
RpcUrls == {1, 2}
\* getDefaultConfig: the key the environment provides, and the default endpoint
EnvPrivateKey == 1
DefaultRpcUrl == 1
Undef == [undefined |-> TRUE]
\* an optional number: absent, or present with value n
None == <<>>
Some(n) == <<n>>

VARIABLES
    rt,            \* the withRetry call under test (retry harness)
    store,         \* state.json: wallet address -> persisted wallet state
    disk,          \* state.json as a file: absent, unparsable or JSON; writable or not
    ledger,        \* addLedger per wallet address: calls made, calls that succeeded,
                   \* calls made after one succeeded, process of the last success;
                   \* and the account getLedger returns: totalBalance and locked
    restarts,      \* processes started so far on this store
    peer,          \* another process running at the same time on the same state.json
    instances,     \* the ZeroGKit objects of the process, by object id
    registry,      \* ZeroGKit.instances: wallet address -> object id (0: none)
    globalClient,  \* inference.ts globalClient (0: null)
    runs,          \* the _doInit sequences of the process (= their promises)
    tasks          \* the callers: position and locals of each async chain

vars == <<rt, store, disk, ledger, restarts, peer, instances, registry, globalClient, runs, tasks>>

(* ============================ utils/retry ============================= *)
RECURSIVE Pow2(_)
Pow2(n) == IF n <= 0 THEN 1 ELSE 2 * Pow2(n - 1)

RetryLoopEnters_OffByOne(attempt, maxRetries) == attempt < maxRetries
RetryLoopEnters_OneMore(attempt, maxRetries) == attempt <= maxRetries + 1

\* for (let attempt = 1; attempt <= maxRetries; attempt++)
RetryLoopEnters(attempt, maxRetries) == attempt <= maxRetries

RetryGivesUp_OneEarly(attempt, maxRetries) == attempt + 1 = maxRetries

\* if (attempt === maxRetries) throw lastError
RetryGivesUp(attempt, maxRetries) == attempt = maxRetries

WaitTime_Linear(delay, attempt) == delay * attempt

\* const waitTime = delay * Math.pow(2, attempt - 1)
WaitTime(delay, attempt) == delay * Pow2(attempt - 1)


\* the other withRetry of the code base (fn, maxRetries, delay,
\* backoffMultiplier = 2), called with the same arguments on an operation that
\* behaves the same: let lastError = new Error('Unknown error')
UnknownError == [error |-> 0]
LegacyIdle ==
    [pc |-> "idle", attempt |-> 0, calls |-> 0, delay |-> 0, sleeps |-> <<>>,
     lastError |-> UnknownError, result |-> Undef]

RetryIdle ==
    [pc |-> "idle", maxRetries |-> 0, delay |-> 0, succeedsAt |-> 0, attempt |-> 0,
     calls |-> 0, sleeps |-> <<>>, lastError |-> Undef, result |-> Undef, legacy |-> LegacyIdle]

\* the operation under test: its invocation number succeedsAt resolves, the others
\* reject, each with an error of its own (succeedsAt = 0: it always fails)
OperationSucceeds(r) == r.calls = r.succeedsAt

\* withRetry(operation, maxRetries, delay): up to the first invocation of operation
WithRetry(m, d, k) ==
    /\ rt.pc = "idle"
    /\ rt' = IF RetryLoopEnters(1, m)
                THEN [rt EXCEPT !.pc = "call", !.maxRetries = m, !.delay = d,
                                !.succeedsAt = k, !.attempt = 1, !.calls = 1]
                ELSE [rt EXCEPT !.pc = "thrown", !.maxRetries = m, !.delay = d,
                                !.succeedsAt = k, !.attempt = 1, !.result = rt.lastError]
    /\ UNCHANGED <<store, disk, ledger, restarts, peer, instances, registry, globalClient, runs, tasks>>

\* await operation() settles: return its value, or catch its error
OperationSettles ==
    /\ rt.pc = "call"
    /\ LET err == [error |-> rt.calls]
       IN rt' = IF OperationSucceeds(rt)
                  THEN [rt EXCEPT !.pc = "returned", !.result = [value |-> rt.calls]]
                  ELSE IF RetryGivesUp(rt.attempt, rt.maxRetries)
                  THEN [rt EXCEPT !.pc = "thrown", !.lastError = err, !.result = err]
                  ELSE [rt EXCEPT !.pc = "sleeping", !.lastError = err,
                                  !.sleeps = Append(@, WaitTime(rt.delay, rt.attempt))]
    /\ UNCHANGED <<store, disk, ledger, restarts, peer, instances, registry, globalClient, runs, tasks>>

\* the backoff timer fires: attempt++, loop test, next invocation (or throw lastError!)
SleepEnds ==
    /\ rt.pc = "sleeping"
    /\ rt' = IF RetryLoopEnters(rt.attempt + 1, rt.maxRetries)
                THEN [rt EXCEPT !.pc = "call", !.attempt = @ + 1, !.calls = @ + 1]
                ELSE [rt EXCEPT !.pc = "thrown", !.attempt = @ + 1, !.result = rt.lastError]
    /\ UNCHANGED <<store, disk, ledger, restarts, peer, instances, registry, globalClient, runs, tasks>>

(* ---- the other variant of withRetry ---- *)
\* for (let attempt = 1; attempt <= maxRetries + 1; attempt++)
LegacyLoopEnters(attempt, maxRetries) == attempt <= maxRetries + 1

\* if (attempt <= maxRetries) sleep(delay), then delay *= backoffMultiplier
LegacySleeps(attempt, maxRetries) == attempt <= maxRetries
BackoffMultiplier == 2

\* both variants are called with (operation, m, d); the operation succeeds at
\* its invocation number k (k = 0: never)
CompareStarts(m, d, k) ==
    /\ rt.pc = "idle" /\ rt.legacy.pc = "idle"
    /\ LET started == IF RetryLoopEnters(1, m)
                      THEN [rt EXCEPT !.pc = "call", !.maxRetries = m, !.delay = d,
                                      !.succeedsAt = k, !.attempt = 1, !.calls = 1]
                      ELSE [rt EXCEPT !.pc = "thrown", !.maxRetries = m, !.delay = d,
                                      !.succeedsAt = k, !.attempt = 1, !.result = rt.lastError]
       IN rt' = [started EXCEPT !.legacy =
                    IF LegacyLoopEnters(1, m)
                    THEN [@ EXCEPT !.pc = "call", !.delay = d, !.attempt = 1, !.calls = 1]
                    ELSE [@ EXCEPT !.pc = "thrown", !.delay = d, !.attempt = 1,
                                   !.result = rt.legacy.lastError]]
    /\ UNCHANGED <<store, disk, ledger, restarts, peer, instances, registry, globalClient, runs, tasks>>

\* await fn() settles in the other variant: return, or catch, sleep when
\* attempt <= maxRetries, else leave the loop and throw lastError
LegacyOperationSettles ==
    /\ rt.legacy.pc = "call"
    /\ LET l == rt.legacy
           err == [error |-> l.calls]
       IN rt' = [rt EXCEPT !.legacy =
                    IF l.calls = rt.succeedsAt
                    THEN [l EXCEPT !.pc = "returned", !.result = [value |-> l.calls]]
                    ELSE IF LegacySleeps(l.attempt, rt.maxRetries)
                    THEN [l EXCEPT !.pc = "sleeping", !.lastError = err,
                                   !.sleeps = Append(@, l.delay)]
                    ELSE [l EXCEPT !.pc = "thrown", !.lastError = err, !.result = err]]
    /\ UNCHANGED <<store, disk, ledger, restarts, peer, instances, registry, globalClient, runs, tasks>>

\* the sleep of the other variant ends: the delay is multiplied, attempt++,
\* loop test, next invocation
LegacySleepEnds ==
    /\ rt.legacy.pc = "sleeping"
    /\ LET l == rt.legacy
       IN rt' = [rt EXCEPT !.legacy =
                    IF LegacyLoopEnters(l.attempt + 1, rt.maxRetries)
                    THEN [l EXCEPT !.pc = "call", !.attempt = @ + 1, !.calls = @ + 1,
                                   !.delay = @ * BackoffMultiplier]
                    ELSE [l EXCEPT !.pc = "thrown", !.attempt = @ + 1, !.result = l.lastError]]
    /\ UNCHANGED <<store, disk, ledger, restarts, peer, instances, registry, globalClient, runs, tasks>>

(* ============================ core/client ============================= *)
\* wallet.address: derived from the private key alone (the provider plays no part)
WalletAddress(privateKey) == 100 + privateKey
Addresses == {WalletAddress(k) : k \in PrivateKeys}

\* getWalletState's default record
DefaultWalletState ==
    [autoDepositCompleted |-> FALSE, lastUsed |-> 0, createdAt |-> 0, rpcUrl |-> 0,
     totalRequests |-> 0]

\* loadState(): the parsed state file, or {} when the file does not exist or
\* JSON.parse throws
LoadState_NoCatch == store

LoadState == IF disk.file = "json" THEN store ELSE <<>>

\* getWalletState(walletAddress): state[walletAddress] || default
GetWalletState(walletAddress) ==
    IF walletAddress \in DOMAIN LoadState THEN LoadState[walletAddress] ELSE DefaultWalletState

\* setWalletState(walletAddress, walletState): the state file it saves.
\* Timestamps are abstracted to 1 ("set").
SetWalletState(walletAddress, walletState) ==
    [a \in DOMAIN LoadState \cup {walletAddress} |->
        IF a = walletAddress THEN [walletState EXCEPT !.lastUsed = 1] ELSE LoadState[a]]

\* saveState(state): writeFileSync replaces the file; when it throws the error
\* is logged and the file stays as it was
SaveState(state) ==
    IF disk.writable
    THEN store' = state /\ disk' = [disk EXCEPT !.file = "json"]
    ELSE UNCHANGED <<store, disk>>

\* the constructor: defaults filled in, user values override them (initZeroG
\* always passes privateKey, rpcUrl and autoDeposit; retries is optional)
NewZeroGKit(config) ==
    [config |-> [privateKey |-> config.privateKey,
                 rpcUrl |-> config.rpcUrl,
                 autoDeposit |-> config.autoDeposit,
                 retries |-> IF config.retries = None THEN DefaultRetries ELSE config.retries[1],
                 timeout |-> DefaultTimeout],
     initialized |-> FALSE, initializing |-> FALSE, initPromise |-> 0,
     autoDepositCompleted |-> FALSE, walletAddress |-> 0, broker |-> 0]

\* getInstance: the key of the registry
RegistryKey(config) == WalletAddress(config.privateKey)

RegistryHas_Never(walletAddress) == FALSE

\* getInstance: ZeroGKit.instances.has(walletAddress)
RegistryHas(walletAddress) == registry[walletAddress] # 0

RestoredFlag_Forgotten(walletState) == FALSE

\* getInstance: instance.autoDepositCompleted = walletState.autoDepositCompleted
RestoredFlag(walletState) == walletState.autoDepositCompleted

\* getInstance: the wallet state written when the instance is created
CreatedWalletState(walletState, config) ==
    [walletState EXCEPT !.rpcUrl = config.rpcUrl,
                        !.createdAt = IF walletState.createdAt # 0 THEN @ ELSE 1]

\* static async getInstance(config): runs to its end without suspending.
\* obj is the object it returns.
GetInstance(config, obj) ==
    LET walletAddress == RegistryKey(config)
        walletState == GetWalletState(walletAddress)
        created == [NewZeroGKit(config) EXCEPT
                       !.autoDepositCompleted = RestoredFlag(walletState),
                       !.walletAddress = walletAddress]
    IN IF ~RegistryHas(walletAddress)
         THEN /\ instances' = Append(instances, created)
              /\ SaveState(SetWalletState(walletAddress, CreatedWalletState(walletState, config)))
              /\ registry' = [registry EXCEPT ![walletAddress] = Len(instances) + 1]
              /\ obj = Len(instances) + 1
         ELSE /\ obj = registry[walletAddress]
              /\ UNCHANGED <<instances, store, disk, registry>>

InitDispatch_NoPendingTest(inst) == IF inst.initialized THEN "ready" ELSE "start"
InitDispatch_NoReadyTest(inst) ==
    IF inst.initializing THEN (IF inst.initPromise # 0 THEN "attach" ELSE "throw") ELSE "start"

\* init(): what a call does, from the three flags it tests
InitDispatch(inst) ==
    IF inst.initialized THEN "ready"
    ELSE IF inst.initializing
         THEN (IF inst.initPromise # 0 THEN "attach" ELSE "throw")
         ELSE "start"

\* _doInit: if (this.config.autoDeposit && !this.autoDepositCompleted)
ShouldActivate(inst) == inst.config.autoDeposit /\ ~inst.autoDepositCompleted

ActivatedWalletState_FlagNotSaved(walletState) == [walletState EXCEPT !.totalRequests = @ + 1]

\* _doInit: the wallet state written after a successful addLedger
ActivatedWalletState(walletState) ==
    [walletState EXCEPT !.autoDepositCompleted = TRUE, !.totalRequests = @ + 1]

\* getBroker: the wallet state written at each acquisition
BumpedWalletState(walletState) == [walletState EXCEPT !.totalRequests = @ + 1]

\* init() after await this.initPromise: initialized is set when the promise
\* fulfilled, and the finally clears initializing either way
AfterInit_NoFinally(inst, fulfilled) ==
    IF fulfilled THEN [inst EXCEPT !.initialized = TRUE, !.initializing = FALSE] ELSE inst

AfterInit_ReadyEitherWay(inst, fulfilled) == [inst EXCEPT !.initialized = TRUE, !.initializing = FALSE]

AfterInit_NeverReady(inst, fulfilled) == [inst EXCEPT !.initializing = FALSE]

AfterInit(inst, fulfilled) ==
    [inst EXCEPT !.initialized = IF fulfilled THEN TRUE ELSE @, !.initializing = FALSE]

\* _doInit up to its first await: withRetry(getNetwork, retries) invokes getNetwork,
\* or throws at once (no attempt allowed), which _doInit wraps in a NetworkError
StartDoInit(obj) ==
    [obj |-> obj,
     pc |-> IF RetryLoopEnters(1, instances[obj].config.retries) THEN "getNetwork" ELSE "rejected",
     attempt |-> 1, starterResumed |-> FALSE, deposits |-> 0, deposit |-> "none"]

\* a failed attempt inside withRetry: give up (the error reaches _doInit's catch),
\* or sleep and invoke the operation again (the sleep changes no state of the
\* process, so the two halves are one step here)
RunAfterFailure(run, retries) ==
    IF RetryGivesUp(run.attempt, retries) \/ ~RetryLoopEnters(run.attempt + 1, retries)
    THEN [run EXCEPT !.pc = "rejected"]
    ELSE [run EXCEPT !.attempt = @ + 1]

\* _doInit after the activation deposit settled: its failure is caught and
\* logged, and _doInit returns either way (deposit: history, for the claims)
RunAfterDeposit_NoCatch(run, ok) ==
    [run EXCEPT !.pc = IF ok THEN "resolved" ELSE "rejected",
                !.deposit = IF ok THEN "made" ELSE "failed"]

RunAfterDeposit(run, ok) ==
    [run EXCEPT !.pc = "resolved", !.deposit = IF ok THEN "made" ELSE "failed"]

Settled(run) == run.pc \in {"resolved", "rejected"}

NetworkInitError(r) == [kind |-> "Network", msg |-> "Failed to initialize 0G connection", run |-> r]
InitInProgressError == [kind |-> "Configuration", msg |-> "Initialization already in progress", run |-> 0]

(* ---- inference.ts: chat, its pipeline and its catch ---- *)
\* the external operations of one chat call, in the order of the code
Steps == <<"listService", "acknowledge", "metadata", "headers", "fetch">>

StepIndex(s) == CHOOSE i \in 1 .. Len(Steps) : Steps[i] = s

\* the statement reached when the await of a step fulfils
StepAfter_ThirdSkipped(s) ==
    IF s = "acknowledge" THEN "headers" ELSE Steps[StepIndex(s) + 1]

StepAfter_HeadersSkipped(s) == IF s = "metadata" THEN "fetch" ELSE Steps[StepIndex(s) + 1]

StepAfter(s) == Steps[StepIndex(s) + 1]

\* the errors of the collaborators and of chat itself
StepError(s) == [kind |-> "Error", name |-> "Error", msg |-> s]
NoServicesError == [kind |-> "Network", name |-> "ZeroGError", msg |-> "No AI inference services available"]
AbortError == [kind |-> "DOMException", name |-> "AbortError", msg |-> "This operation was aborted"]
TimedOutError(ms) == [kind |-> "Network", name |-> "ZeroGError", msg |-> "timed out after", ms |-> ms]
\* what validateChatMessage throws for a message it refuses
InvalidMessageErrors ==
    {[kind |-> k, name |-> "ZeroGError", msg |-> "invalid message"] : k \in {"Configuration", "Validation"}}
InsufficientFundsError ==
    [kind |-> "InsufficientFunds", name |-> "ZeroGError",
     msg |-> "Insufficient funds for AI inference request"]
HttpError(status) == [kind |-> "Network", name |-> "ZeroGError", msg |-> "AI service error: HTTP", status |-> status]
InvalidFormatError == [kind |-> "Network", name |-> "ZeroGError", msg |-> "Invalid response format from AI service"]
UnexpectedError == [kind |-> "Network", name |-> "ZeroGError", msg |-> "Unexpected error during chat request"]
\* reading .name of undefined inside the catch block
CatchTypeError == [kind |-> "TypeError", name |-> "TypeError", msg |-> "Cannot read properties of undefined"]

\* error.name: every ZeroGError is constructed with the name ZeroGError
ErrorName(e) == IF "name" \in DOMAIN e THEN e.name ELSE "ZeroGError"

\* the catch block of chat: what the caller receives for a value thrown in the
\* try (ms: the timeout the message names)
ChatCatch_AbortNotTested(error, ms) ==
    IF error = Undef THEN CatchTypeError
    ELSE IF error.kind \in {"Configuration", "Network", "InsufficientFunds"} THEN error
    ELSE UnexpectedError

ChatCatch(error, ms) ==
    IF error = Undef THEN CatchTypeError
    ELSE IF ErrorName(error) = "AbortError" THEN TimedOutError(ms)
    ELSE IF error.kind \in {"Configuration", "Network", "InsufficientFunds"} THEN error
    ELSE UnexpectedError

\* serviceList is empty (or absent): the retried operation throws
ListIsEmpty(serviceList) == Len(serviceList) = 0

\* what listService may return: no provider, one provider, three providers
ServiceLists == {<<>>, <<1>>, <<3, 1, 2>>}

\* strings: sequences of letters 1 .. 9, a capital letter being its small
\* letter plus 10
Capital(c) == c + 10
ToLowerCase_Identity(str) == str

ToLowerCase(str) == [i \in 1 .. Len(str) |-> IF str[i] > 10 THEN str[i] - 10 ELSE str[i]]

\* str.includes(sub)
Includes(str, sub) ==
    \E i \in 0 .. Len(str) - Len(sub) : \A j \in 1 .. Len(sub) : str[i + j] = sub[j]

\* the names useDeepseek and useLlama look for ('deepseek', 'llama')
DeepseekName == <<1, 2>>
LlamaName == <<3, 4>>
ModelNames == {DeepseekName, LlamaName}

\* the model each provider declares in its metadata: 1 'Llama-3', 2 'DeepSeek',
\* 3 'my-llama'
ModelOf(provider) ==
    CASE provider = 1 -> <<Capital(3), 4, 5>>
      [] provider = 2 -> <<Capital(1), 2>>
      [] OTHER -> <<6, 3, 4>>

\* model.toLowerCase().includes(modelName.toLowerCase())
ModelMatches(model, modelName) == Includes(ToLowerCase(model), ToLowerCase(modelName))
NoProviderError == [kind |-> "Network", name |-> "ZeroGError", msg |-> "No provider found for model"]

\* how a listService call settles: it throws, or it returns a list
ListOutcomes ==
    {[threw |-> TRUE, list |-> <<>>]} \cup {[threw |-> FALSE, list |-> l] : l \in ServiceLists}

\* options.provider (0: absent)
ProviderOptions == {0, 2}

\* the HTTP statuses of a response
Statuses == {200, 402, 403, 500}

\* response.ok
ResponseOk_Always(status) == TRUE

ResponseOk(status) == status >= 200 /\ status <= 299

\* how response.json() settles: it rejects, or the body has a content (absent,
\* '', whitespace only, or a text), a number of tool calls and a
\* reasoning_content (absent or a text)
JsonOutcomes ==
    {[parsed |-> FALSE, content |-> "absent", toolCalls |-> 0, reasoning |-> "absent"]} \cup
    [parsed : {TRUE}, content : {"absent", "empty", "blank", "text"}, toolCalls : {0, 2},
     reasoning : {"absent", "text"}]

\* !content
ContentFalsy(content) == content \in {"absent", "empty"}

\* what the call resolves with (via: what was taken from the body)
Resolved(via, content, tools) == [kind |-> "ok", via |-> via, content |-> content, tools |-> tools]

\* chat after response.json(): the content, or a NetworkError when it is falsy
ChatResult_WithFallbacks(body) ==
    IF ~ContentFalsy(body.content) THEN [kind |-> "ok", via |-> "content", content |-> body.content, tools |-> 0]
    ELSE IF body.toolCalls > 0 THEN [kind |-> "ok", via |-> "toolCalls", content |-> "stand-in", tools |-> body.toolCalls]
    ELSE IF body.reasoning # "absent" THEN [kind |-> "ok", via |-> "reasoning", content |-> body.reasoning, tools |-> 0]
    ELSE [kind |-> "ok", via |-> "apology", content |-> "apology", tools |-> 0]

ChatResult(body) ==
    IF ContentFalsy(body.content) THEN InvalidFormatError
    ELSE Resolved("content", body.content, 0)

\* useDeepseek / useLlama after response.json(): the content, or for a content
\* that is falsy or blank the tool-call stand-in, else the reasoning, else the
\* apology
HelperResult_ReasoningFirst(body) ==
    IF ~(ContentFalsy(body.content) \/ body.content = "blank")
    THEN Resolved("content", body.content, 0)
    ELSE IF body.reasoning # "absent" THEN Resolved("reasoning", body.reasoning, 0)
    ELSE IF body.toolCalls > 0 THEN Resolved("toolCalls", "stand-in", body.toolCalls)
    ELSE Resolved("apology", "apology", 0)

HelperResult(body) ==
    IF ~(ContentFalsy(body.content) \/ body.content = "blank")
    THEN Resolved("content", body.content, 0)
    ELSE IF body.toolCalls > 0 THEN Resolved("toolCalls", "stand-in", body.toolCalls)
    ELSE IF body.reasoning # "absent" THEN Resolved("reasoning", body.reasoning, 0)
    ELSE Resolved("apology", "apology", 0)

\* how fetch settles: a response with a status, or no response (NoResponse)
NoResponse == 0
FetchOutcomes == {NoResponse} \cup Statuses

\* the bookkeeping of one chat call: the effective retries, the attempt of the
\* step in flight, the provider selected, the timeout timer, the response
\* status; and, as history, the steps in the order they were first invoked,
\* those that fulfilled, those in flight, the number of listService calls and
\* whether every one of them returned no provider. For useDeepseek / useLlama
\* also the options as passed, the model looked for, the phase (find: inside
\* findModelProvider, send: after it), the services listed, the one being
\* probed and those whose metadata call failed; for chat the model option and
\* the services listed; passed: the addresses handed to acknowledgeProviderSigner,
\* getServiceMetadata (after the search) and getRequestHeaders; the message,
\* the header set the call holds and the HTTP requests it has sent; for
\* deposit the invocations of the ledger deposit and those that succeeded; for
\* deposit and withdraw the amount
IdleChat ==
    [valid |-> TRUE, optRetries |-> None, optTimeout |-> None, optModel |-> None, passed |-> {},
     message |-> <<>>, headers |-> None, requests |-> <<>>, depositCalls |-> 0, depositOks |-> 0,
     amount |-> 0,
     modelName |-> <<>>, phase |-> "none",
     services |-> <<>>, probe |-> 0, skipped |-> {}, body |-> None, lastText |-> <<>>,
     retries |-> 0, timeout |-> 0, providerOpt |-> 0, attempt |-> 0, provider |-> 0, timer |-> "none",
     status |-> 0, first |-> <<>>, succeeded |-> {}, inflight |-> {},
     listCalls |-> 0, allEmpty |-> TRUE]

\* wanted: the autoDeposit and retries an initZeroG call of the task passed;
\* asked: the identity (privateKey, rpcUrl) a getInstance call of the task was
\* given, and got: the object it returned (history, for the claims)
IdleTask ==
    [id |-> 0, pc |-> "idle", op |-> "none", asked |-> <<>>, wanted |-> <<>>, got |-> 0, obj |-> 0, run |-> 0,
     initResult |-> Undef, outcome |-> Undef, chat |-> IdleChat]

\* a rejection on its way to the caller: chat passes it through its catch
(* ---- client: withdraw and its catch ---- *)
\* 'insufficient', and the messages of the errors broker.ledger.refund throws:
\* 'insufficient balance', 'Insufficient', 'x INSUFFICIENT', 'reverted'
InsufficientWord == <<7, 8>>
RefundMessages ==
    {<<7, 8, 9>>, <<Capital(7), 8>>, <<9, Capital(7), Capital(8)>>, <<9>>}
RefundError(text) == [kind |-> "Error", name |-> "Error", msg |-> "refund", text |-> text]

\* error.message: the fixed messages of the errors of init() have no
\* 'insufficient' in them
ErrorText(error) == IF "text" \in DOMAIN error THEN error.text ELSE <<>>
WithdrawInsufficientError ==
    [kind |-> "InsufficientFunds", name |-> "ZeroGError", msg |-> "Insufficient balance to withdraw"]
WithdrawFailedError == [kind |-> "Network", name |-> "ZeroGError", msg |-> "Failed to withdraw"]

\* the catch block of withdraw
WithdrawCatch_AlwaysNetwork(error) ==
    IF error = Undef THEN CatchTypeError ELSE WithdrawFailedError

WithdrawCatch(error) ==
    IF error = Undef THEN CatchTypeError
    ELSE IF Includes(ToLowerCase(ErrorText(error)), InsufficientWord) THEN WithdrawInsufficientError
    ELSE WithdrawFailedError

\* how a refund call settles
RefundOutcomes ==
    {[ok |-> TRUE, text |-> <<>>]} \cup {[ok |-> FALSE, text |-> m] : m \in RefundMessages}

\* the catch block of deposit: whatever was thrown is wrapped
DepositFailedError == [kind |-> "Network", name |-> "ZeroGError", msg |-> "Failed to deposit"]
DepositCatch(error) == DepositFailedError

HelperFallbackTimeout == 30000
CatchTimeout(task) ==
    IF task.op = "chat" THEN task.chat.timeout
    ELSE IF task.chat.optTimeout = None \/ task.chat.optTimeout = Some(0) THEN HelperFallbackTimeout
    ELSE task.chat.optTimeout[1]

(* ---- client: getBalance / getLockedBalance / getAvailableBalance ---- *)
BalanceOps == {"getBalance", "getLockedBalance", "getAvailableBalance"}

\* amounts are counted in units of 10^17 wei: ten of them make one OG.
\* ethers.formatEther(value): the decimal text, as its whole part and its
\* fraction digit
UnitsPerEther == 10
FormatEther(value) == [whole |-> value \div UnitsPerEther, tenths |-> value % UnitsPerEther]

\* what each of the three methods formats from the account getLedger returned
BalanceOf(op, account) ==
    IF op = "getBalance" THEN FormatEther(account.totalBalance)
    ELSE IF op = "getLockedBalance" THEN FormatEther(account.locked)
    ELSE FormatEther(account.totalBalance)

\* their catch: any failure becomes NetworkError('Failed to retrieve balance')
BalanceFailedError == [kind |-> "Network", name |-> "ZeroGError", msg |-> "Failed to retrieve balance"]
BalanceCatch(error) == BalanceFailedError

Rejection(task, error) ==
    IF task.op \in {"chat", "useModel"} THEN ChatCatch(error, CatchTimeout(task))
    ELSE IF task.op = "withdraw" THEN WithdrawCatch(error)
    ELSE IF task.op = "deposit" THEN DepositCatch(error)
    ELSE IF task.op \in BalanceOps THEN BalanceCatch(error)
    ELSE error

\* chat(message, options): retries is one of the options, or absent
ChatOptions ==
    [retries : {None} \cup {Some(n) : n \in 0 .. MaxRetries}, timeout : {None, Some(5)},
     provider : ProviderOptions, model : {None}]

\* chat(message, options) with the model option: absent, 'deepseek' or 'llama'
ModelOptions ==
    [retries : {Some(1)}, timeout : {None}, provider : ProviderOptions,
     model : {None} \cup {Some(m) : m \in ModelNames}]

\* useDeepseek / useLlama (message, options): no provider and no model option
HelperOptions == [retries : {None, Some(0), Some(1)}, timeout : {None, Some(5)}]

\* options.retries || 3
HelperFallbackRetries == 3
HelperRetries(optRetries) ==
    IF optRetries = None \/ optRetries = Some(0) THEN HelperFallbackRetries ELSE optRetries[1]

\* the messages passed to chat: the empty one and a non-empty one
Messages == {<<>>, <<1>>}

\* validateChatMessage accepts the message
MessageIsValid(message) == Len(message) > 0

\* sdkRetries: the retries of the global client, or 3 when there is none yet
ChatFallbackRetries == 3
SdkRetries == IF globalClient = 0 THEN ChatFallbackRetries ELSE instances[globalClient].config.retries

\* retries = options.retries ?? sdkRetries
EffectiveRetries(options) == IF options.retries # None THEN options.retries[1] ELSE SdkRetries

\* sdkTimeout: the timeout of the global client, or 30000 when there is none yet
ChatFallbackTimeout == 30000
SdkTimeout == IF globalClient = 0 THEN ChatFallbackTimeout ELSE instances[globalClient].config.timeout

\* timeout = options.timeout ?? sdkTimeout
EffectiveTimeout(options) == IF options.timeout # None THEN options.timeout[1] ELSE SdkTimeout

\* the timer once fetch has settled: cleared after the await when a response
\* arrived, cleared by the finally when fetch rejected
TimerAfterFetch_NoFinally(timer, responded) ==
    IF timer = "fired" \/ ~responded THEN timer ELSE "cleared"

TimerAfterFetch(timer, responded) == IF timer = "fired" THEN timer ELSE "cleared"

\* the timeout the timer is armed with: chat read it at its start, useDeepseek
\* and useLlama read it just before arming (options.timeout ?? sdkTimeout)
ArmedTimeout(task) ==
    IF task.op = "chat" THEN task.chat.timeout
    ELSE IF task.chat.optTimeout # None THEN task.chat.optTimeout[1] ELSE SdkTimeout

\* a value thrown inside the try of chat (of useDeepseek, useLlama, withdraw)
\* reaches the caller through the catch
ChatRejects(task, error) == [task EXCEPT !.pc = "done", !.outcome = Rejection(task, error)]

\* what getRequestHeaders(providerAddress, message) returned to this call: a
\* fresh header set, known by the call and the attempt that produced it
RequestHeaders(task) ==
    [call |-> task.id, attempt |-> task.chat.attempt, provider |-> task.chat.provider,
     message |-> task.chat.message]

\* fetch(endpoint, {headers: {...headers}, body: {messages: [message], ...}})
HttpRequest(task) == [headers |-> task.chat.headers, message |-> task.chat.message]

\* the broker operations that take the provider address
AddressedSteps == {"acknowledge", "metadata", "headers"}

\* const provider = options.provider || services[0]
SelectedProvider(providerOpt, optModel, serviceList) ==
    IF providerOpt # 0 THEN providerOpt ELSE serviceList[1]

\* the call of an external operation (history: first invocation, in flight)
Called(task, s) ==
    [task EXCEPT !.pc = s,
                 !.chat.first = IF \E i \in 1 .. Len(@) : @[i] = s THEN @ ELSE Append(@, s),
                 !.chat.inflight = @ \cup {s},
                 !.chat.passed = IF s \in AddressedSteps THEN @ \cup {task.chat.provider} ELSE @,
                 !.chat.requests = IF s = "fetch" THEN Append(@, HttpRequest(task)) ELSE @,
                 !.chat.depositCalls = IF s = "depositFund" THEN @ + 1 ELSE @,
                 !.chat.listCalls = IF s = "listService" THEN @ + 1 ELSE @]

\* withRetry(step, retries) up to its first await: the first invocation, or,
\* when the loop is not entered, throw lastError (undefined)
Invoke(task, s) ==
    IF RetryLoopEnters(1, task.chat.retries)
    THEN Called([task EXCEPT !.chat.attempt = 1], s)
    ELSE ChatRejects(task, Undef)

\* an attempt of step s threw error inside withRetry: rethrow it on the last
\* attempt, else sleep and invoke the step again
StepFailed(task, s, error) ==
    LET c == task.chat
        landed == [task EXCEPT !.chat.inflight = @ \ {s}]
    IN IF RetryGivesUp(c.attempt, c.retries) \/ ~RetryLoopEnters(c.attempt + 1, c.retries)
       THEN ChatRejects(landed, error)
       ELSE Called([landed EXCEPT !.chat.attempt = @ + 1], s)

\* step s fulfilled: chat goes on to the next statement; after the headers the
\* timeout timer is armed and the request is sent (not retried)
StepFulfilled(task, s) ==
    LET landed == [task EXCEPT !.chat.inflight = @ \ {s}, !.chat.succeeded = @ \cup {s},
                               !.chat.headers = IF s = "headers" THEN Some(RequestHeaders(task)) ELSE @]
    IN IF StepAfter(s) = "fetch"
       THEN Called([landed EXCEPT !.chat.timer = "armed", !.chat.timeout = ArmedTimeout(task)], "fetch")
       ELSE Invoke(landed, StepAfter(s))

\* findModelProvider: getServiceMetadata of the next service is called
Probing(task, i) == Called([task EXCEPT !.chat.probe = i], "probe")

\* findModelProvider after the metadata call of a service settled: the address
\* is returned when the model matches (useDeepseek / useLlama then call
\* getBroker again), else the next service is tried, and after the last one a
\* NetworkError is thrown; a service whose call failed is skipped
ProbeSettled_FailureEndsSearch(task, ok) ==
    LET c == task.chat
        provider == c.services[c.probe]
        landed == [task EXCEPT !.chat.inflight = @ \ {"probe"},
                               !.chat.skipped = IF ok THEN @ ELSE @ \cup {provider}]
    IN IF ok /\ ModelMatches(ModelOf(provider), c.modelName)
       THEN [landed EXCEPT !.pc = "getBroker", !.chat.phase = "send", !.chat.provider = provider]
       ELSE IF ok /\ c.probe < Len(c.services)
       THEN Probing(landed, c.probe + 1)
       ELSE ChatRejects(landed, NoProviderError)

ProbeSettled(task, ok) ==
    LET c == task.chat
        provider == c.services[c.probe]
        landed == [task EXCEPT !.chat.inflight = @ \ {"probe"},
                               !.chat.skipped = IF ok THEN @ ELSE @ \cup {provider}]
    IN IF ok /\ ModelMatches(ModelOf(provider), c.modelName)
       THEN [landed EXCEPT !.pc = "getBroker", !.chat.phase = "send", !.chat.provider = provider]
       ELSE IF c.probe < Len(c.services)
       THEN Probing(landed, c.probe + 1)
       ELSE ChatRejects(landed, NoProviderError)

\* controller.signal.aborted of the call's own AbortController (created by the
\* call right before its request)
Aborted_SharedController(t) == \E u \in Tasks : tasks[u].chat.timer = "fired"

Aborted(t) == tasks[t].chat.timer = "fired"

\* the amounts passed to deposit and withdraw
Amounts == {-1, 0, 1}

\* validateAmount accepts the amount
AmountIsValid(amount) == amount > 0

\* what validateAmount throws for an amount it refuses
InvalidAmountError == [kind |-> "Validation", name |-> "ZeroGError", msg |-> "invalid amount"]

\* the operations of the connection that take an amount
LedgerOps == {"deposit", "withdraw"}

\* ZeroGKit.deposit / withdraw up to getBroker: validateAmount is the first
\* statement, outside the try, so what it throws reaches the caller as it is
LedgerCallStarts_NotValidated(task) == [task EXCEPT !.pc = "getBroker"]

LedgerCallStarts(task) ==
    IF AmountIsValid(task.chat.amount)
    THEN [task EXCEPT !.pc = "getBroker"]
    ELSE [task EXCEPT !.pc = "done", !.outcome = InvalidAmountError]

\* the callers are interchangeable: they start in the order of their numbers
MayStart(t) == tasks[t].pc = "idle" /\ (IF t = 1 THEN TRUE ELSE tasks[t - 1].pc # "idle")

\* what initZeroG spreads over the defaults
Configs ==
    [privateKey : PrivateKeys, rpcUrl : RpcUrls, autoDeposit : BOOLEAN,
     retries : {Some(n) : n \in 0 .. MaxRetries}]

\* the callers of each process that is restarted
RestartTasks == {1, 2}

\* the configurations of the processes that are restarted: one endpoint, one
\* attempt per retried step
RestartConfigs ==
    [privateKey : PrivateKeys, rpcUrl : {DefaultRpcUrl}, autoDeposit : BOOLEAN,
     retries : {Some(1)}]

\* getDefaultConfig(): timeout and retries only when the environment sets them
DefaultConfig ==
    [privateKey |-> EnvPrivateKey, rpcUrl |-> DefaultRpcUrl, autoDeposit |-> TRUE, retries |-> None]

(* ---- inference.ts: initZeroG / ensureInitialized ---- *)
\* initZeroG(config): getInstance runs, then the caller awaits its promise
InitZeroG(t, config) ==
    /\ MayStart(t)
    /\ \E obj \in 1 .. Len(instances) + 1 :
         /\ GetInstance(config, obj)
         /\ tasks' = [tasks EXCEPT ![t] = [@ EXCEPT !.pc = "initZeroG", !.op = "initZeroG",
                                                    !.asked = <<config.privateKey, config.rpcUrl>>,
                                                    !.wanted = <<config.autoDeposit, config.retries>>,
                                                    !.got = obj]]
    /\ UNCHANGED <<rt, ledger, restarts, peer, globalClient, runs>>

\* an operation of the facade (deposit, getBalance, ...) up to its first await:
\* ensureInitialized() calls initZeroG() when there is no global client
Acquire(t) ==
    /\ MayStart(t)
    /\ IF globalClient = 0
         THEN \E obj \in 1 .. Len(instances) + 1 :
                /\ GetInstance(DefaultConfig, obj)
                /\ tasks' = [tasks EXCEPT ![t] = [@ EXCEPT !.pc = "ensure", !.op = "acquire",
                                   !.asked = <<DefaultConfig.privateKey, DefaultConfig.rpcUrl>>,
                                   !.got = obj]]
         ELSE /\ tasks' = [tasks EXCEPT ![t] = [@ EXCEPT !.pc = "getBroker", !.op = "acquire"]]
              /\ UNCHANGED <<instances, store, disk, registry>>
    /\ UNCHANGED <<rt, ledger, restarts, peer, globalClient, runs>>

\* globalClient = await ZeroGKit.getInstance(finalConfig)
InitZeroGResumes(t) ==
    /\ tasks[t].pc \in {"initZeroG", "ensure"}
    /\ globalClient' = tasks[t].got
    /\ tasks' = [tasks EXCEPT ![t] =
                    IF @.pc = "initZeroG"
                    THEN [@ EXCEPT !.pc = "done", !.outcome = [kind |-> "ok", broker |-> 0]]
                    ELSE IF @.op \in LedgerOps THEN LedgerCallStarts(@)
                    ELSE [@ EXCEPT !.pc = "getBroker"]]
    /\ UNCHANGED <<rt, store, disk, ledger, restarts, peer, instances, registry, runs>>

(* ---- client: getBroker / init / _doInit ---- *)
\* globalClient!.getBroker(): init() up to its await (or its return)
CallInit(t) ==
    /\ tasks[t].pc = "getBroker"
    /\ globalClient # 0
    /\ LET o == globalClient
           d == InitDispatch(instances[o])
       IN \/ /\ d = "ready"
             /\ tasks' = [tasks EXCEPT ![t] = [@ EXCEPT !.pc = "bump", !.obj = o,
                                                        !.initResult = [kind |-> "ok", run |-> 0]]]
             /\ UNCHANGED <<instances, runs>>
          \/ /\ d = "attach"
             /\ tasks' = [tasks EXCEPT ![t] = [@ EXCEPT !.pc = "initWaiter", !.obj = o,
                                                        !.run = instances[o].initPromise]]
             /\ UNCHANGED <<instances, runs>>
          \/ /\ d = "throw"
             /\ tasks' = [tasks EXCEPT ![t] = [@ EXCEPT !.pc = "done", !.obj = o,
                                                        !.initResult = InitInProgressError,
                                                        !.outcome = Rejection(tasks[t], InitInProgressError)]]
             /\ UNCHANGED <<instances, runs>>
          \/ /\ d = "start"
             /\ Len(runs) < MaxRuns
             /\ runs' = Append(runs, StartDoInit(o))
             /\ instances' = [instances EXCEPT ![o].initializing = TRUE,
                                               ![o].initPromise = Len(runs) + 1]
             /\ tasks' = [tasks EXCEPT ![t] = [@ EXCEPT !.pc = "initStarter", !.obj = o,
                                                        !.run = Len(runs) + 1]]
    /\ UNCHANGED <<rt, store, disk, ledger, restarts, peer, registry, globalClient>>

\* provider.getNetwork() settles inside withRetry; on success the wallet is built
\* and withRetry(createZGComputeNetworkBroker) makes its first call
GetNetworkSettles(r, ok) ==
    /\ runs[r].pc = "getNetwork"
    /\ runs' = [runs EXCEPT ![r] =
                   IF ok THEN [@ EXCEPT !.pc = "createBroker", !.attempt = 1]
                   ELSE RunAfterFailure(@, instances[@.obj].config.retries)]
    /\ UNCHANGED <<rt, store, disk, ledger, restarts, peer, instances, registry, globalClient, tasks>>

\* createZGComputeNetworkBroker settles; on success this.broker is set and the
\* activation deposit is called when due
CreateBrokerSettles(r, ok) ==
    /\ runs[r].pc = "createBroker"
    /\ LET o == runs[r].obj
           inst == instances[o]
           a == WalletAddress(inst.config.privateKey)
       IN IF ok
            THEN /\ instances' = [instances EXCEPT ![o].broker = r]
                 /\ IF ShouldActivate(inst)
                      THEN /\ runs' = [runs EXCEPT ![r].pc = "addLedger", ![r].deposits = @ + 1]
                           /\ ledger' = [ledger EXCEPT ![a].calls = @ + 1,
                                            ![a].lateCalls = IF ledger[a].ok > 0 THEN @ + 1 ELSE @]
                      ELSE /\ runs' = [runs EXCEPT ![r].pc = "resolved"]
                           /\ UNCHANGED ledger
            ELSE /\ runs' = [runs EXCEPT ![r] = RunAfterFailure(@, inst.config.retries)]
                 /\ UNCHANGED <<instances, ledger>>
    /\ UNCHANGED <<rt, store, disk, restarts, peer, registry, globalClient, tasks>>

\* broker.ledger.addLedger(0.05) settles: the flag is set and persisted, or the
\* failure is logged and swallowed
AddLedgerSettles(r, ok) ==
    /\ runs[r].pc = "addLedger"
    /\ LET o == runs[r].obj
           inst == instances[o]
           a == WalletAddress(inst.config.privateKey)
       IN IF ok
            THEN /\ instances' = [instances EXCEPT ![o].autoDepositCompleted = TRUE]
                 /\ SaveState(SetWalletState(inst.walletAddress,
                                 ActivatedWalletState(GetWalletState(inst.walletAddress))))
                 /\ ledger' = [ledger EXCEPT ![a].ok = @ + 1, ![a].process = restarts + 1]
            ELSE UNCHANGED <<instances, store, disk, ledger>>
    /\ runs' = [runs EXCEPT ![r] = RunAfterDeposit(@, ok)]
    /\ UNCHANGED <<rt, restarts, peer, registry, globalClient, tasks>>

\* init() of the caller that started the sequence, after await this.initPromise:
\* try / catch / finally
StarterResumes(t) ==
    /\ tasks[t].pc = "initStarter"
    /\ Settled(runs[tasks[t].run])
    /\ LET r == tasks[t].run
           o == tasks[t].obj
       IN /\ runs' = [runs EXCEPT ![r].starterResumed = TRUE]
          /\ instances' = [instances EXCEPT ![o] = AfterInit(@, runs[r].pc = "resolved")]
          /\ IF runs[r].pc = "resolved"
               THEN /\ tasks' = [tasks EXCEPT ![t] = [@ EXCEPT !.pc = "bump",
                                                        !.initResult = [kind |-> "ok", run |-> r]]]
               ELSE /\ tasks' = [tasks EXCEPT ![t] = [@ EXCEPT !.pc = "done",
                                                        !.initResult = NetworkInitError(r),
                                                        !.outcome = Rejection(tasks[t], NetworkInitError(r))]]
    /\ UNCHANGED <<rt, store, disk, ledger, restarts, peer, registry, globalClient>>

\* init() of a caller that returned this.initPromise: the promise's reactions run
\* in the order they were registered, the starter's first
WaiterResumes(t) ==
    /\ tasks[t].pc = "initWaiter"
    /\ Settled(runs[tasks[t].run])
    /\ runs[tasks[t].run].starterResumed
    /\ LET r == tasks[t].run
       IN tasks' = [tasks EXCEPT ![t] =
                       IF runs[r].pc = "resolved"
                       THEN [@ EXCEPT !.pc = "bump", !.initResult = [kind |-> "ok", run |-> r]]
                       ELSE [@ EXCEPT !.pc = "done", !.initResult = NetworkInitError(r),
                                      !.outcome = Rejection(tasks[t], NetworkInitError(r))]]
    /\ UNCHANGED <<rt, store, disk, ledger, restarts, peer, instances, registry, globalClient, runs>>

\* getBroker after await this.init(): the request counter, then return this.broker
GetBrokerReturns(t) ==
    /\ tasks[t].pc = "bump"
    /\ LET inst == instances[tasks[t].obj]
       IN /\ IF inst.walletAddress # 0
               THEN SaveState(SetWalletState(inst.walletAddress,
                                  BumpedWalletState(GetWalletState(inst.walletAddress))))
               ELSE UNCHANGED <<store, disk>>
          /\ tasks' = [tasks EXCEPT ![t] =
                          IF @.op = "chat"
                          THEN Invoke(@, "listService")
                          ELSE IF @.op = "useModel" /\ @.chat.phase = "find"
                          THEN Invoke([@ EXCEPT !.chat.retries = SdkRetries], "listService")
                          ELSE IF @.op = "useModel"
                          THEN Invoke([@ EXCEPT !.chat.retries = HelperRetries(tasks[t].chat.optRetries)],
                                      "acknowledge")
                          ELSE IF @.op = "withdraw"
                          THEN Invoke([@ EXCEPT !.chat.retries = inst.config.retries], "refund")
                          ELSE IF @.op = "deposit"
                          THEN Invoke([@ EXCEPT !.chat.retries = inst.config.retries], "depositFund")
                          ELSE IF @.op \in BalanceOps
                          THEN [@ EXCEPT !.pc = "getLedger"]
                          ELSE [@ EXCEPT !.pc = "done",
                                         !.outcome = [kind |-> "ok", broker |-> inst.broker]]]
    /\ UNCHANGED <<rt, ledger, restarts, peer, instances, registry, globalClient, runs>>

(* ---- inference.ts: chat ---- *)
\* chat(message, options) up to its first await: the effective timeout and
\* retries are read first; a message that validateChatMessage refuses throws
\* into the catch before ensureInitialized()
StartChat(t, message, options) ==
    /\ MayStart(t)
    /\ LET started == [tasks[t] EXCEPT !.op = "chat", !.chat.valid = MessageIsValid(message),
                                       !.chat.message = message,
                                       !.chat.optRetries = options.retries,
                                       !.chat.optTimeout = options.timeout,
                                       !.chat.optModel = options.model,
                                       !.chat.retries = EffectiveRetries(options),
                                       !.chat.timeout = EffectiveTimeout(options),
                                       !.chat.providerOpt = options.provider]
       IN IF ~MessageIsValid(message)
            THEN /\ \E error \in InvalidMessageErrors :
                      tasks' = [tasks EXCEPT ![t] = ChatRejects(started, error)]
                 /\ UNCHANGED <<instances, store, disk, registry>>
            ELSE IF globalClient = 0
            THEN \E obj \in 1 .. Len(instances) + 1 :
                   /\ GetInstance(DefaultConfig, obj)
                   /\ tasks' = [tasks EXCEPT ![t] = [started EXCEPT !.pc = "ensure",
                                      !.asked = <<DefaultConfig.privateKey, DefaultConfig.rpcUrl>>,
                                      !.got = obj]]
            ELSE /\ tasks' = [tasks EXCEPT ![t] = [started EXCEPT !.pc = "getBroker"]]
                 /\ UNCHANGED <<instances, store, disk, registry>>
    /\ UNCHANGED <<rt, ledger, restarts, peer, globalClient, runs>>

\* useDeepseek / useLlama (message, options) up to the first await: as chat,
\* but nothing is read from the options yet
StartHelper(t, modelName, message, options) ==
    /\ MayStart(t)
    /\ LET started == [tasks[t] EXCEPT !.op = "useModel", !.chat.valid = MessageIsValid(message),
                                       !.chat.message = message,
                                       !.chat.modelName = modelName, !.chat.phase = "find",
                                       !.chat.optRetries = options.retries,
                                       !.chat.optTimeout = options.timeout]
       IN IF ~MessageIsValid(message)
            THEN /\ \E error \in InvalidMessageErrors :
                      tasks' = [tasks EXCEPT ![t] = ChatRejects(started, error)]
                 /\ UNCHANGED <<instances, store, disk, registry>>
            ELSE IF globalClient = 0
            THEN \E obj \in 1 .. Len(instances) + 1 :
                   /\ GetInstance(DefaultConfig, obj)
                   /\ tasks' = [tasks EXCEPT ![t] = [started EXCEPT !.pc = "ensure",
                                      !.asked = <<DefaultConfig.privateKey, DefaultConfig.rpcUrl>>,
                                      !.got = obj]]
            ELSE /\ tasks' = [tasks EXCEPT ![t] = [started EXCEPT !.pc = "getBroker"]]
                 /\ UNCHANGED <<instances, store, disk, registry>>
    /\ UNCHANGED <<rt, ledger, restarts, peer, globalClient, runs>>

\* broker.inference.listService() settles inside withRetry: it throws, or its
\* list is empty (the retried operation throws a NetworkError), or the provider
\* is chosen (options.provider || services[0]) and acknowledged
ListServiceSettles(t, res) ==
    /\ tasks[t].pc = "listService"
    /\ tasks' = [tasks EXCEPT ![t] =
                    IF res.threw
                    THEN StepFailed([@ EXCEPT !.chat.allEmpty = FALSE], "listService",
                                    StepError("listService"))
                    ELSE IF ListIsEmpty(res.list)
                    THEN StepFailed(@, "listService", NoServicesError)
                    ELSE IF @.op = "useModel"
                    THEN Probing([@ EXCEPT !.chat.allEmpty = FALSE, !.chat.services = res.list,
                                           !.chat.inflight = @ \ {"listService"},
                                           !.chat.succeeded = @ \cup {"listService"}], 1)
                    ELSE StepFulfilled([@ EXCEPT !.chat.allEmpty = FALSE,
                                          !.chat.services = res.list,
                                          !.chat.provider =
                                              SelectedProvider(tasks[t].chat.providerOpt,
                                                               tasks[t].chat.optModel, res.list)],
                                       "listService")]
    /\ UNCHANGED <<rt, store, disk, ledger, restarts, peer, instances, registry, globalClient, runs>>

\* findModelProvider: broker.inference.getServiceMetadata(providerAddress) of
\* the service being examined settles (one attempt, failures are skipped)
ProbeSettles(t, ok) ==
    /\ tasks[t].pc = "probe"
    /\ tasks' = [tasks EXCEPT ![t] = ProbeSettled(@, ok)]
    /\ UNCHANGED <<rt, store, disk, ledger, restarts, peer, instances, registry, globalClient, runs>>

\* a retried step without a result of its own settles
RetriedStepSettles(t, s, ok) ==
    /\ tasks[t].pc = s
    /\ tasks' = [tasks EXCEPT ![t] = IF ok THEN StepFulfilled(@, s)
                                      ELSE StepFailed(@, s, StepError(s))]
    /\ UNCHANGED <<rt, store, disk, ledger, restarts, peer, instances, registry, globalClient, runs>>

\* broker.inference.acknowledgeProviderSigner(providerAddress) settles
AcknowledgeSettles(t, ok) == RetriedStepSettles(t, "acknowledge", ok)

\* broker.inference.getServiceMetadata(providerAddress) settles
MetadataSettles(t, ok) == RetriedStepSettles(t, "metadata", ok)

\* broker.inference.getRequestHeaders(providerAddress, message) settles; on
\* success the timer is armed and fetch is called
HeadersSettles(t, ok) == RetriedStepSettles(t, "headers", ok)

\* the timeout callback, whenever the timer is armed: controller.abort()
TimerFires(t) ==
    /\ tasks[t].chat.timer = "armed"
    /\ tasks' = [tasks EXCEPT ![t].chat.timer = "fired"]
    /\ UNCHANGED <<rt, store, disk, ledger, restarts, peer, instances, registry, globalClient, runs>>

\* fetch settles: aborted (AbortError), failed, or a response arrived; the
\* timer is cleared (after the await, or in the finally), and the body is read
FetchSettles(t, res) ==
    /\ tasks[t].pc = "fetch"
    /\ Aborted(t) => res = NoResponse
    /\ LET landed == [tasks[t] EXCEPT !.chat.inflight = @ \ {"fetch"},
                                      !.chat.timer = TimerAfterFetch(@, res # NoResponse)]
       IN tasks' = [tasks EXCEPT ![t] =
                       IF res = NoResponse
                       THEN ChatRejects(landed, IF Aborted(t) THEN AbortError ELSE StepError("fetch"))
                       ELSE [landed EXCEPT !.chat.succeeded = @ \cup {"fetch"},
                                           !.chat.status = res,
                                           !.pc = IF ResponseOk(res) THEN "json" ELSE "text"]]
    /\ UNCHANGED <<rt, store, disk, ledger, restarts, peer, instances, registry, globalClient, runs>>

\* response.text() of a response that is not ok settles
TextSettles(t, ok) ==
    /\ tasks[t].pc = "text"
    /\ tasks' = [tasks EXCEPT ![t] =
                    ChatRejects(@, IF ~ok THEN StepError("text")
                                   ELSE IF @.chat.status \in {402, 403} THEN InsufficientFundsError
                                   ELSE HttpError(@.chat.status))]
    /\ UNCHANGED <<rt, store, disk, ledger, restarts, peer, instances, registry, globalClient, runs>>

\* response.json() settles: the content of the first choice is returned, or it
\* is missing
JsonSettles(t, res) ==
    /\ tasks[t].pc = "json"
    /\ LET result == IF tasks[t].op = "chat" THEN ChatResult(res) ELSE HelperResult(res)
       IN tasks' = [tasks EXCEPT ![t] =
                       IF ~res.parsed THEN ChatRejects(@, StepError("json"))
                       ELSE IF result.kind = "ok"
                       THEN [@ EXCEPT !.pc = "done", !.outcome = result, !.chat.body = res]
                       ELSE ChatRejects([@ EXCEPT !.chat.body = res], result)]
    /\ UNCHANGED <<rt, store, disk, ledger, restarts, peer, instances, registry, globalClient, runs>>

(* ---- inference.ts / client: withdraw ---- *)
\* withdraw(amount) with an amount validateAmount accepts, up to its first
\* await: ensureInitialized(), then globalClient.withdraw calls getBroker
StartWithdraw(t, amount) ==
    /\ MayStart(t)
    /\ IF globalClient = 0
         THEN \E obj \in 1 .. Len(instances) + 1 :
                /\ GetInstance(DefaultConfig, obj)
                /\ tasks' = [tasks EXCEPT ![t] = [@ EXCEPT !.pc = "ensure", !.op = "withdraw",
                                   !.chat.amount = amount,
                                   !.asked = <<DefaultConfig.privateKey, DefaultConfig.rpcUrl>>,
                                   !.got = obj]]
         ELSE /\ tasks' = [tasks EXCEPT ![t] =
                              LedgerCallStarts([@ EXCEPT !.op = "withdraw", !.chat.amount = amount])]
              /\ UNCHANGED <<instances, store, disk, registry>>
    /\ UNCHANGED <<rt, ledger, restarts, peer, globalClient, runs>>

\* broker.ledger.refund(amount) settles inside withRetry(..., config.retries)
RefundSettles(t, res) ==
    /\ tasks[t].pc = "refund"
    /\ tasks' = [tasks EXCEPT ![t] =
                    IF res.ok
                    THEN [@ EXCEPT !.pc = "done", !.outcome = [kind |-> "ok", broker |-> 0],
                                   !.chat.inflight = @ \ {"refund"},
                                   !.chat.succeeded = @ \cup {"refund"}]
                    ELSE StepFailed([@ EXCEPT !.chat.lastText = res.text], "refund",
                                    RefundError(res.text))]
    /\ UNCHANGED <<rt, store, disk, ledger, restarts, peer, instances, registry, globalClient, runs>>

(* ---- inference.ts / client: deposit ---- *)
\* deposit(amount) with an amount validateAmount accepts, up to its first
\* await: ensureInitialized(), then globalClient.deposit calls getBroker
StartDeposit(t, amount) ==
    /\ MayStart(t)
    /\ IF globalClient = 0
         THEN \E obj \in 1 .. Len(instances) + 1 :
                /\ GetInstance(DefaultConfig, obj)
                /\ tasks' = [tasks EXCEPT ![t] = [@ EXCEPT !.pc = "ensure", !.op = "deposit",
                                   !.chat.amount = amount,
                                   !.asked = <<DefaultConfig.privateKey, DefaultConfig.rpcUrl>>,
                                   !.got = obj]]
         ELSE /\ tasks' = [tasks EXCEPT ![t] =
                              LedgerCallStarts([@ EXCEPT !.op = "deposit", !.chat.amount = amount])]
              /\ UNCHANGED <<instances, store, disk, registry>>
    /\ UNCHANGED <<rt, ledger, restarts, peer, globalClient, runs>>

\* broker.ledger.depositFund(amount) settles inside withRetry(..., config.retries)
DepositFundSettles(t, ok) ==
    /\ tasks[t].pc = "depositFund"
    /\ tasks' = [tasks EXCEPT ![t] =
                    IF ok
                    THEN [@ EXCEPT !.pc = "done", !.outcome = [kind |-> "ok", broker |-> 0],
                                   !.chat.inflight = @ \ {"depositFund"},
                                   !.chat.succeeded = @ \cup {"depositFund"},
                                   !.chat.depositOks = @ + 1]
                    ELSE StepFailed(@, "depositFund", StepError("depositFund"))]
    /\ UNCHANGED <<rt, store, disk, ledger, restarts, peer, instances, registry, globalClient, runs>>

\* the process ends and a new one starts: memory is lost, state.json and the
\* ledger are not
Restart ==
    /\ restarts < MaxRestarts
    /\ restarts' = restarts + 1
    /\ instances' = <<>>
    /\ registry' = [a \in Addresses |-> 0]
    /\ globalClient' = 0
    /\ runs' = <<>>
    /\ tasks' = [t \in Tasks |-> [IdleTask EXCEPT !.id = t]]
    /\ UNCHANGED <<rt, store, disk, ledger, peer>>

(* ---- client: the balance queries ---- *)
\* the accounts the ledger can hold for an identity (units of 10^17 wei)
Accounts ==
    {[totalBalance |-> 0, locked |-> 0], [totalBalance |-> 5, locked |-> 5],
     [totalBalance |-> 12, locked |-> 5], [totalBalance |-> 25, locked |-> 0]}

\* the account of an identity changes on the ledger (deposits, settlements)
AccountChanges(a, account) ==
    /\ [totalBalance |-> ledger[a].totalBalance, locked |-> ledger[a].locked] # account
    /\ ledger' = [ledger EXCEPT ![a].totalBalance = account.totalBalance,
                                ![a].locked = account.locked]
    /\ UNCHANGED <<rt, store, disk, restarts, peer, instances, registry, globalClient, runs, tasks>>

\* one of the three queries up to its first await: ensureInitialized(), then
\* the method calls getBroker inside its try
StartBalance(t, op) ==
    /\ MayStart(t)
    /\ IF globalClient = 0
         THEN \E obj \in 1 .. Len(instances) + 1 :
                /\ GetInstance(DefaultConfig, obj)
                /\ tasks' = [tasks EXCEPT ![t] = [@ EXCEPT !.pc = "ensure", !.op = op,
                                   !.asked = <<DefaultConfig.privateKey, DefaultConfig.rpcUrl>>,
                                   !.got = obj]]
         ELSE /\ tasks' = [tasks EXCEPT ![t] = [@ EXCEPT !.pc = "getBroker", !.op = op]]
              /\ UNCHANGED <<instances, store, disk, registry>>
    /\ UNCHANGED <<rt, ledger, restarts, peer, globalClient, runs>>

\* broker.ledger.getLedger() settles: the method formats one field of the
\* account and returns the text, or its catch wraps the failure
GetLedgerSettles(t, ok) ==
    /\ tasks[t].pc = "getLedger"
    /\ LET a == instances[tasks[t].obj].walletAddress
           account == [totalBalance |-> ledger[a].totalBalance, locked |-> ledger[a].locked]
       IN tasks' = [tasks EXCEPT ![t] =
                       IF ok
                       THEN [@ EXCEPT !.pc = "done",
                                      !.outcome = [kind |-> "ok", balance |-> BalanceOf(tasks[t].op, account),
                                                   account |-> account]]
                       ELSE [@ EXCEPT !.pc = "done",
                                      !.outcome = Rejection(tasks[t], StepError("getLedger"))]]
    /\ UNCHANGED <<rt, store, disk, ledger, restarts, peer, instances, registry, globalClient, runs>>

(* ---- a second process on the same state file ---- *)
\* another process with one connection (autoDeposit false, so that it makes
\* no deposit of its own) for identity walletAddress; its file operations
\* interleave with those of the first process. walletState and state are the
\* locals of its getBroker and setWalletState, calls its getBroker calls.
MaxPeerCalls == 2
PeerIdle ==
    [pc |-> "none", walletAddress |-> 0, walletState |-> DefaultWalletState, state |-> <<>>,
     calls |-> 0]
PeerConfig(k) == [privateKey |-> k, rpcUrl |-> DefaultRpcUrl, autoDeposit |-> FALSE, retries |-> None]

\* setWalletState: state[walletAddress] = {...walletState, lastUsed}
WithWalletState(state, walletAddress, walletState) ==
    [a \in DOMAIN state \cup {walletAddress} |->
        IF a = walletAddress THEN [walletState EXCEPT !.lastUsed = 1] ELSE state[a]]

\* getInstance in the other process (no other process acts inside it)
PeerGetInstance(k) ==
    /\ peer.pc = "none"
    /\ LET a == RegistryKey(PeerConfig(k))
       IN /\ SaveState(SetWalletState(a, CreatedWalletState(GetWalletState(a), PeerConfig(k))))
          /\ peer' = [peer EXCEPT !.pc = "ready", !.walletAddress = a]
    /\ UNCHANGED <<rt, ledger, restarts, instances, registry, globalClient, runs, tasks>>

\* getBroker in the other process: const walletState = getWalletState(...)
PeerReadsRecord ==
    /\ peer.pc = "ready" /\ peer.calls < MaxPeerCalls
    /\ peer' = [peer EXCEPT !.pc = "read", !.calls = @ + 1,
                            !.walletState = GetWalletState(peer.walletAddress)]
    /\ UNCHANGED <<rt, store, disk, ledger, restarts, instances, registry, globalClient, runs, tasks>>

\* setWalletState in the other process: const state = this.loadState()
PeerLoadsState ==
    /\ peer.pc = "read"
    /\ peer' = [peer EXCEPT !.pc = "loaded", !.state = LoadState]
    /\ UNCHANGED <<rt, store, disk, ledger, restarts, instances, registry, globalClient, runs, tasks>>

\* setWalletState in the other process: the record is put into the state it
\* loaded and the file is replaced
PeerSavesState ==
    /\ peer.pc = "loaded"
    /\ SaveState(WithWalletState(peer.state, peer.walletAddress, BumpedWalletState(peer.walletState)))
    /\ peer' = [peer EXCEPT !.pc = "ready"]
    /\ UNCHANGED <<rt, ledger, restarts, instances, registry, globalClient, runs, tasks>>

(* ---- the state file fails ---- *)
\* state.json is deleted, or its bytes stop being JSON (store keeps what was
\* written last; no read sees it until the file is written again)
StoreBreaks(file) ==
    /\ disk.file # file
    /\ disk' = [disk EXCEPT !.file = file]
    /\ UNCHANGED <<rt, store, ledger, restarts, peer, instances, registry, globalClient, runs, tasks>>

\* the file (or its directory) stops or starts being writable
StorePermission(writable) ==
    /\ disk.writable # writable
    /\ disk' = [disk EXCEPT !.writable = writable]
    /\ UNCHANGED <<rt, store, ledger, restarts, peer, instances, registry, globalClient, runs, tasks>>

(* ============================ specifications ========================== *)
Init ==
    /\ rt = RetryIdle
    /\ store = <<>>
    /\ disk = [file |-> "absent", writable |-> TRUE]
    /\ ledger = [a \in Addresses |-> [calls |-> 0, ok |-> 0, lateCalls |-> 0, process |-> 0,
                                      totalBalance |-> 0, locked |-> 0]]
    /\ restarts = 0
    /\ peer = PeerIdle
    /\ instances = <<>>
    /\ registry = [a \in Addresses |-> 0]
    /\ globalClient = 0
    /\ runs = <<>>
    /\ tasks = [t \in Tasks |-> [IdleTask EXCEPT !.id = t]]

\* the retry executor alone
NextRetry ==
    \/ \E m \in 0 .. MaxAttempts, d \in 1 .. MaxDelay, k \in 0 .. MaxAttempts : WithRetry(m, d, k)
    \/ OperationSettles
    \/ SleepEnds

SpecRetry == Init /\ [][NextRetry]_vars

\* the two variants of the retry executor side by side
NextVariants ==
    \/ \E m \in 0 .. MaxAttempts, d \in 1 .. MaxDelay, k \in 0 .. MaxAttempts : CompareStarts(m, d, k)
    \/ OperationSettles
    \/ SleepEnds
    \/ LegacyOperationSettles
    \/ LegacySleepEnds

SpecVariants == Init /\ [][NextVariants]_vars

\* the connection manager and the callers that acquire the broker
NextConn ==
    \/ \E t \in Tasks, config \in Configs : InitZeroG(t, config)
    \/ \E t \in Tasks : Acquire(t)
    \/ \E t \in Tasks : InitZeroGResumes(t)
    \/ \E t \in Tasks : CallInit(t)
    \/ \E r \in 1 .. Len(runs), ok \in BOOLEAN : GetNetworkSettles(r, ok)
    \/ \E r \in 1 .. Len(runs), ok \in BOOLEAN : CreateBrokerSettles(r, ok)
    \/ \E r \in 1 .. Len(runs), ok \in BOOLEAN : AddLedgerSettles(r, ok)
    \/ \E t \in Tasks : StarterResumes(t)
    \/ \E t \in Tasks : WaiterResumes(t)
    \/ \E t \in Tasks : GetBrokerReturns(t)

SpecConn == Init /\ [][NextConn]_vars

\* successive processes on one persisted store
NextRestart ==
    \/ \E t \in RestartTasks, config \in RestartConfigs : InitZeroG(t, config)
    \/ \E t \in RestartTasks : Acquire(t)
    \/ \E t \in RestartTasks : InitZeroGResumes(t)
    \/ \E t \in RestartTasks : CallInit(t)
    \/ \E r \in 1 .. Len(runs), ok \in BOOLEAN : GetNetworkSettles(r, ok)
    \/ \E r \in 1 .. Len(runs), ok \in BOOLEAN : CreateBrokerSettles(r, ok)
    \/ \E r \in 1 .. Len(runs), ok \in BOOLEAN : AddLedgerSettles(r, ok)
    \/ \E t \in RestartTasks : StarterResumes(t)
    \/ \E t \in RestartTasks : WaiterResumes(t)
    \/ \E t \in RestartTasks : GetBrokerReturns(t)
    \/ Restart

SpecRestart == Init /\ [][NextRestart]_vars

\* the ways state.json can be unreadable
BrokenFiles == {"absent", "garbage"}

\* the caller of each process, and what it passes to initZeroG
StoreTasks == {1}
StoreConfigs ==
    [privateKey : {EnvPrivateKey}, rpcUrl : {DefaultRpcUrl}, autoDeposit : BOOLEAN,
     retries : {Some(1)}]

\* successive processes on a state file that can fail at any moment
NextStore ==
    \/ \E t \in StoreTasks, config \in StoreConfigs : InitZeroG(t, config)
    \/ \E t \in StoreTasks : Acquire(t)
    \/ \E t \in StoreTasks : InitZeroGResumes(t)
    \/ \E t \in StoreTasks : CallInit(t)
    \/ \E r \in 1 .. Len(runs), ok \in BOOLEAN : GetNetworkSettles(r, ok)
    \/ \E r \in 1 .. Len(runs), ok \in BOOLEAN : CreateBrokerSettles(r, ok)
    \/ \E r \in 1 .. Len(runs), ok \in BOOLEAN : AddLedgerSettles(r, ok)
    \/ \E t \in StoreTasks : StarterResumes(t)
    \/ \E t \in StoreTasks : GetBrokerReturns(t)
    \/ Restart
    \/ \E file \in BrokenFiles : StoreBreaks(file)
    \/ \E writable \in BOOLEAN : StorePermission(writable)

SpecStore == Init /\ [][NextStore]_vars

\* one caller of chat (the second to start), beside one caller that configures
\* the connection or acquires the broker
ChatTasks == {2}
SetupTasks == {1}
ChatSpecTasks == SetupTasks \cup ChatTasks

\* what the configuring caller passes to initZeroG
ChatConfigs ==
    [privateKey : {EnvPrivateKey}, rpcUrl : {DefaultRpcUrl}, autoDeposit : {FALSE},
     retries : {Some(1)}]

\* a chat call beside the configuration or acquisition of the connection
NextChat ==
    \/ \E t \in SetupTasks, config \in ChatConfigs : InitZeroG(t, config)
    \/ \E t \in SetupTasks : Acquire(t)
    \/ \E t \in ChatTasks, message \in Messages, options \in ChatOptions : StartChat(t, message, options)
    \/ \E t \in ChatSpecTasks : InitZeroGResumes(t)
    \/ \E t \in ChatSpecTasks : CallInit(t)
    \/ \E r \in 1 .. Len(runs), ok \in BOOLEAN : GetNetworkSettles(r, ok)
    \/ \E r \in 1 .. Len(runs), ok \in BOOLEAN : CreateBrokerSettles(r, ok)
    \/ \E r \in 1 .. Len(runs), ok \in BOOLEAN : AddLedgerSettles(r, ok)
    \/ \E t \in ChatSpecTasks : StarterResumes(t)
    \/ \E t \in ChatSpecTasks : WaiterResumes(t)
    \/ \E t \in ChatSpecTasks : GetBrokerReturns(t)
    \/ \E t \in ChatTasks, res \in ListOutcomes : ListServiceSettles(t, res)
    \/ \E t \in ChatTasks, ok \in BOOLEAN : AcknowledgeSettles(t, ok)
    \/ \E t \in ChatTasks, ok \in BOOLEAN : MetadataSettles(t, ok)
    \/ \E t \in ChatTasks, ok \in BOOLEAN : HeadersSettles(t, ok)
    \/ \E t \in ChatTasks : TimerFires(t)
    \/ \E t \in ChatTasks, res \in FetchOutcomes : FetchSettles(t, res)
    \/ \E t \in ChatTasks, ok \in BOOLEAN : TextSettles(t, ok)
    \/ \E t \in ChatTasks, res \in JsonOutcomes : JsonSettles(t, res)

SpecChat == Init /\ [][NextChat]_vars

\* the callers of withdraw, the first of which may configure the connection
LedgerTasks == {1, 2}
LedgerConfigs ==
    [privateKey : {EnvPrivateKey}, rpcUrl : {DefaultRpcUrl}, autoDeposit : {FALSE},
     retries : {Some(0), Some(2)}]

\* withdrawals on the connection
NextLedger ==
    \/ \E t \in SetupTasks, config \in LedgerConfigs : InitZeroG(t, config)
    \/ \E t \in LedgerTasks, amount \in Amounts : StartWithdraw(t, amount)
    \/ \E t \in LedgerTasks : InitZeroGResumes(t)
    \/ \E t \in LedgerTasks : CallInit(t)
    \/ \E r \in 1 .. Len(runs), ok \in BOOLEAN : GetNetworkSettles(r, ok)
    \/ \E r \in 1 .. Len(runs), ok \in BOOLEAN : CreateBrokerSettles(r, ok)
    \/ \E r \in 1 .. Len(runs), ok \in BOOLEAN : AddLedgerSettles(r, ok)
    \/ \E t \in LedgerTasks : StarterResumes(t)
    \/ \E t \in LedgerTasks : WaiterResumes(t)
    \/ \E t \in LedgerTasks : GetBrokerReturns(t)
    \/ \E t \in LedgerTasks, res \in RefundOutcomes : RefundSettles(t, res)
    \/ \E t \in LedgerTasks, amount \in Amounts : StartDeposit(t, amount)
    \/ \E t \in LedgerTasks, ok \in BOOLEAN : DepositFundSettles(t, ok)

SpecLedger == Init /\ [][NextLedger]_vars

\* two callers of chat with a non-empty message, one attempt per step and a
\* timeout of their own
PairTasks == {1, 2}
PairMessages == {<<1>>}
PairOptions == {[retries |-> Some(1), timeout |-> Some(5), provider |-> 0, model |-> None]}
PairLists == {[threw |-> FALSE, list |-> <<1>>]}

\* concurrent chat calls on the shared connection
NextPair ==
    \/ \E t \in PairTasks, message \in PairMessages, options \in PairOptions :
          StartChat(t, message, options)
    \/ \E t \in PairTasks : InitZeroGResumes(t)
    \/ \E t \in PairTasks : CallInit(t)
    \/ \E r \in 1 .. Len(runs), ok \in BOOLEAN : GetNetworkSettles(r, ok)
    \/ \E r \in 1 .. Len(runs), ok \in BOOLEAN : CreateBrokerSettles(r, ok)
    \/ \E r \in 1 .. Len(runs), ok \in BOOLEAN : AddLedgerSettles(r, ok)
    \/ \E t \in PairTasks : StarterResumes(t)
    \/ \E t \in PairTasks : WaiterResumes(t)
    \/ \E t \in PairTasks : GetBrokerReturns(t)
    \/ \E t \in PairTasks, res \in PairLists : ListServiceSettles(t, res)
    \/ \E t \in PairTasks, ok \in BOOLEAN : AcknowledgeSettles(t, ok)
    \/ \E t \in PairTasks, ok \in BOOLEAN : MetadataSettles(t, ok)
    \/ \E t \in PairTasks, ok \in BOOLEAN : HeadersSettles(t, ok)
    \/ \E t \in PairTasks : TimerFires(t)
    \/ \E t \in PairTasks, res \in FetchOutcomes : FetchSettles(t, res)
    \/ \E t \in PairTasks, ok \in BOOLEAN : TextSettles(t, ok)
    \/ \E t \in PairTasks, res \in JsonOutcomes : JsonSettles(t, res)

SpecPair == Init /\ [][NextPair]_vars

\* the caller of chat, useDeepseek or useLlama when it is alone
CallTasks == {1}

\* one call of chat, useDeepseek or useLlama on the automatically initialized
\* connection
NextCalls ==
    \/ \E t \in CallTasks, message \in Messages, options \in ChatOptions : StartChat(t, message, options)
    \/ \E t \in CallTasks, modelName \in ModelNames, message \in Messages, options \in HelperOptions :
          StartHelper(t, modelName, message, options)
    \/ \E t \in CallTasks : InitZeroGResumes(t)
    \/ \E t \in CallTasks : CallInit(t)
    \/ \E r \in 1 .. Len(runs), ok \in BOOLEAN : GetNetworkSettles(r, ok)
    \/ \E r \in 1 .. Len(runs), ok \in BOOLEAN : CreateBrokerSettles(r, ok)
    \/ \E r \in 1 .. Len(runs), ok \in BOOLEAN : AddLedgerSettles(r, ok)
    \/ \E t \in CallTasks : StarterResumes(t)
    \/ \E t \in CallTasks : GetBrokerReturns(t)
    \/ \E t \in CallTasks, res \in ListOutcomes : ListServiceSettles(t, res)
    \/ \E t \in CallTasks, ok \in BOOLEAN : ProbeSettles(t, ok)
    \/ \E t \in CallTasks, ok \in BOOLEAN : AcknowledgeSettles(t, ok)
    \/ \E t \in CallTasks, ok \in BOOLEAN : MetadataSettles(t, ok)
    \/ \E t \in CallTasks, ok \in BOOLEAN : HeadersSettles(t, ok)
    \/ \E t \in CallTasks : TimerFires(t)
    \/ \E t \in CallTasks, res \in FetchOutcomes : FetchSettles(t, res)
    \/ \E t \in CallTasks, ok \in BOOLEAN : TextSettles(t, ok)
    \/ \E t \in CallTasks, res \in JsonOutcomes : JsonSettles(t, res)

SpecCalls == Init /\ [][NextCalls]_vars

\* the balance queries of one process
BalanceTasks == {1, 2}
NextBalance ==
    \/ \E t \in BalanceTasks, op \in BalanceOps : StartBalance(t, op)
    \/ \E t \in BalanceTasks : InitZeroGResumes(t)
    \/ \E t \in BalanceTasks : CallInit(t)
    \/ \E r \in 1 .. Len(runs), ok \in BOOLEAN : GetNetworkSettles(r, ok)
    \/ \E r \in 1 .. Len(runs), ok \in BOOLEAN : CreateBrokerSettles(r, ok)
    \/ \E r \in 1 .. Len(runs), ok \in BOOLEAN : AddLedgerSettles(r, ok)
    \/ \E t \in BalanceTasks : StarterResumes(t)
    \/ \E t \in BalanceTasks : WaiterResumes(t)
    \/ \E t \in BalanceTasks : GetBrokerReturns(t)
    \/ \E t \in BalanceTasks, ok \in BOOLEAN : GetLedgerSettles(t, ok)
    \/ \E account \in Accounts : AccountChanges(WalletAddress(EnvPrivateKey), account)

SpecBalance == Init /\ [][NextBalance]_vars

\* one process with concurrent callers on a state file that can fail at any
\* moment
NextUnstable ==
    \/ \E t \in Tasks, config \in StoreConfigs : InitZeroG(t, config)
    \/ \E t \in Tasks : Acquire(t)
    \/ \E t \in Tasks : InitZeroGResumes(t)
    \/ \E t \in Tasks : CallInit(t)
    \/ \E r \in 1 .. Len(runs), ok \in BOOLEAN : GetNetworkSettles(r, ok)
    \/ \E r \in 1 .. Len(runs), ok \in BOOLEAN : CreateBrokerSettles(r, ok)
    \/ \E r \in 1 .. Len(runs), ok \in BOOLEAN : AddLedgerSettles(r, ok)
    \/ \E t \in Tasks : StarterResumes(t)
    \/ \E t \in Tasks : WaiterResumes(t)
    \/ \E t \in Tasks : GetBrokerReturns(t)
    \/ \E file \in BrokenFiles : StoreBreaks(file)
    \/ \E writable \in BOOLEAN : StorePermission(writable)

SpecUnstable == Init /\ [][NextUnstable]_vars

\* successive processes, and a second process at the same time, on one state
\* file that does not fail
NextShared ==
    \/ \E t \in StoreTasks, config \in StoreConfigs : InitZeroG(t, config)
    \/ \E t \in StoreTasks : Acquire(t)
    \/ \E t \in StoreTasks : InitZeroGResumes(t)
    \/ \E t \in StoreTasks : CallInit(t)
    \/ \E r \in 1 .. Len(runs), ok \in BOOLEAN : GetNetworkSettles(r, ok)
    \/ \E r \in 1 .. Len(runs), ok \in BOOLEAN : CreateBrokerSettles(r, ok)
    \/ \E r \in 1 .. Len(runs), ok \in BOOLEAN : AddLedgerSettles(r, ok)
    \/ \E t \in StoreTasks : StarterResumes(t)
    \/ \E t \in StoreTasks : GetBrokerReturns(t)
    \/ Restart
    \/ \E k \in PrivateKeys : PeerGetInstance(k)
    \/ PeerReadsRecord
    \/ PeerLoadsState
    \/ PeerSavesState

SpecShared == Init /\ [][NextShared]_vars

\* one chat call with or without the model and provider options
NextSelect ==
    \/ \E t \in CallTasks, message \in PairMessages, options \in ModelOptions :
          StartChat(t, message, options)
    \/ \E t \in CallTasks : InitZeroGResumes(t)
    \/ \E t \in CallTasks : CallInit(t)
    \/ \E r \in 1 .. Len(runs), ok \in BOOLEAN : GetNetworkSettles(r, ok)
    \/ \E r \in 1 .. Len(runs), ok \in BOOLEAN : CreateBrokerSettles(r, ok)
    \/ \E r \in 1 .. Len(runs), ok \in BOOLEAN : AddLedgerSettles(r, ok)
    \/ \E t \in CallTasks : StarterResumes(t)
    \/ \E t \in CallTasks : GetBrokerReturns(t)
    \/ \E t \in CallTasks, res \in ListOutcomes : ListServiceSettles(t, res)
    \/ \E t \in CallTasks, ok \in BOOLEAN : AcknowledgeSettles(t, ok)
    \/ \E t \in CallTasks, ok \in BOOLEAN : MetadataSettles(t, ok)
    \/ \E t \in CallTasks, ok \in BOOLEAN : HeadersSettles(t, ok)
    \/ \E t \in CallTasks : TimerFires(t)
    \/ \E t \in CallTasks, res \in FetchOutcomes : FetchSettles(t, res)
    \/ \E t \in CallTasks, ok \in BOOLEAN : TextSettles(t, ok)
    \/ \E t \in CallTasks, res \in JsonOutcomes : JsonSettles(t, res)

SpecSelect == Init /\ [][NextSelect]_vars

\* the steps the process takes by itself: the continuations of settled promises
\* and the timer callback; the settling of an external operation is not among
\* them, except the rejection of a request that was aborted
ProcessSteps ==
    \/ \E t \in ChatSpecTasks : InitZeroGResumes(t)
    \/ \E t \in ChatSpecTasks : CallInit(t)
    \/ \E t \in ChatSpecTasks : StarterResumes(t)
    \/ \E t \in ChatSpecTasks : WaiterResumes(t)
    \/ \E t \in ChatSpecTasks : GetBrokerReturns(t)
    \/ \E t \in ChatTasks : TimerFires(t)
    \/ \E t \in ChatTasks : Aborted(t) /\ FetchSettles(t, NoResponse)

\* the same steps, with the event loop running what is ready
SpecChatLive == Init /\ [][NextChat]_vars /\ WF_vars(ProcessSteps)

(* =============================== claims =============================== *)
Objects == 1 .. Len(instances)
RunIds == 1 .. Len(runs)
InFlight(o) == {r \in RunIds : runs[r].obj = o /\ ~Settled(runs[r])}
Persisted(a) == a \in DOMAIN store /\ store[a].autoDepositCompleted
InitOutcome(r) == IF runs[r].pc = "resolved" THEN [kind |-> "ok", run |-> r] ELSE NetworkInitError(r)

\* C1: on one connection at most one _doInit sequence is in flight at any time,
\* and every caller that started or joined a sequence observes that sequence's
\* outcome: all succeed, or all fail with the same NetworkError.
C1_SingleFlightInit ==
    /\ \A o \in Objects : Cardinality(InFlight(o)) <= 1
    /\ \A t \in Tasks :
         (tasks[t].run # 0 /\ tasks[t].initResult # Undef)
            => /\ Settled(runs[tasks[t].run])
               /\ tasks[t].initResult = InitOutcome(tasks[t].run)
    /\ \A t1, t2 \in Tasks :
         (/\ tasks[t1].run # 0 /\ tasks[t1].run = tasks[t2].run
          /\ tasks[t1].initResult # Undef /\ tasks[t2].initResult # Undef)
            => tasks[t1].initResult = tasks[t2].initResult

\* C1 witness: a caller that joined a pending sequence and the caller that
\* started it have both been rejected with the failure of that sequence.
C1_Witness ==
    \E t1, t2 \in Tasks :
        /\ t1 # t2
        /\ tasks[t1].run # 0 /\ tasks[t1].run = tasks[t2].run
        /\ tasks[t1].pc = "done" /\ tasks[t2].pc = "done"
        /\ tasks[t1].initResult = NetworkInitError(tasks[t1].run)
        /\ tasks[t2].initResult = NetworkInitError(tasks[t1].run)

\* C2: all getInstance calls for one identity return the same object, no two
\* objects of the process have the same wallet address, and a sequence that
\* succeeded is the only one of its connection that is not a failed earlier one.
C2_OneConnectionPerIdentity ==
    /\ \A t1, t2 \in Tasks :
         (tasks[t1].asked # <<>> /\ tasks[t1].asked = tasks[t2].asked)
            => tasks[t1].got = tasks[t2].got
    /\ \A o1, o2 \in Objects :
         o1 # o2 => instances[o1].walletAddress # instances[o2].walletAddress
    /\ \A r1, r2 \in RunIds :
         (r1 # r2 /\ runs[r1].obj = runs[r2].obj /\ runs[r1].pc = "resolved")
            => (r2 < r1 /\ runs[r2].pc = "rejected")

\* C2 witness: two callers that both auto-initialized (both called getInstance)
\* have both got the broker, and one single sequence ran.
C2_Witness ==
    \E t1, t2 \in Tasks :
        /\ t1 # t2
        /\ tasks[t1].op = "acquire" /\ tasks[t2].op = "acquire"
        /\ tasks[t1].asked # <<>> /\ tasks[t2].asked # <<>>
        /\ tasks[t1].pc = "done" /\ tasks[t2].pc = "done"
        /\ tasks[t1].outcome.kind = "ok" /\ tasks[t2].outcome.kind = "ok"
        /\ Len(runs) = 1

\* C3 (as claimed): two getInstance calls with the same private key and
\* different rpcUrl yield two distinct connections, each holding its own
\* configuration.
C3_KeyedByKeyAndEndpoint ==
    \A t1, t2 \in Tasks :
        (/\ tasks[t1].asked # <<>> /\ tasks[t2].asked # <<>>
         /\ tasks[t1].asked[1] = tasks[t2].asked[1]
         /\ tasks[t1].asked[2] # tasks[t2].asked[2])
           => /\ tasks[t1].got # tasks[t2].got
              /\ instances[tasks[t1].got].config.rpcUrl = tasks[t1].asked[2]
              /\ instances[tasks[t2].got].config.rpcUrl = tasks[t2].asked[2]

\* C4: while the persisted record of an identity shows autoDepositCompleted,
\* no step of any process calls addLedger for that identity.
C4_NoDepositOnceRecorded ==
    [][\A a \in Addresses : Persisted(a) => ledger'[a].calls = ledger[a].calls]_vars

\* C4 witness: a restarted process has initialized, with autoDeposit on, a
\* connection of an identity that an earlier process had activated.
C4_Witness ==
    \E o \in Objects :
        /\ restarts >= 1
        /\ instances[o].initialized /\ instances[o].config.autoDeposit
        /\ Persisted(instances[o].walletAddress)
        /\ ledger[instances[o].walletAddress].process = 1

RetrySettled == rt.pc \in {"returned", "thrown"}

\* C6: for maxRetries >= 1, an operation that fails on every invocation is
\* invoked exactly maxRetries times, and withRetry then rejects with the error
\* thrown by the last invocation.
C6_ExhaustionRethrowsLast ==
    (rt.pc # "idle" /\ rt.maxRetries >= 1 /\ rt.succeedsAt = 0)
        => /\ rt.calls <= rt.maxRetries
           /\ rt.pc # "returned"
           /\ rt.pc = "thrown" => (rt.calls = rt.maxRetries /\ rt.result = [error |-> rt.maxRetries])

\* C6 witness: three attempts allowed, three invocations failed, the third
\* error was rethrown.
C6_Witness ==
    /\ rt.pc = "thrown" /\ rt.succeedsAt = 0 /\ rt.maxRetries = 3
    /\ rt.calls = 3 /\ rt.result = [error |-> 3]

\* C7: an operation that fails on invocations 1..k-1 and succeeds on invocation
\* k <= maxRetries is invoked exactly k times, withRetry resolves with the
\* result of invocation k, and nothing is invoked after it.
C7_FirstSuccessReturned ==
    (rt.pc # "idle" /\ 1 <= rt.succeedsAt /\ rt.succeedsAt <= rt.maxRetries)
        => /\ rt.calls <= rt.succeedsAt
           /\ rt.pc # "thrown"
           /\ rt.pc = "returned" => (rt.calls = rt.succeedsAt /\ rt.result = [value |-> rt.succeedsAt])

\* C7 witness: the third invocation succeeded after two failures and its value
\* was returned.
C7_Witness ==
    /\ rt.pc = "returned" /\ rt.succeedsAt = 3 /\ rt.calls = 3
    /\ rt.result = [value |-> 3] /\ Len(rt.sleeps) = 2

\* 1x, 2x, 4x, ... the initial delay
RECURSIVE DoubledDelay(_, _)
DoubledDelay(initialDelay, i) == IF i <= 1 THEN initialDelay ELSE 2 * DoubledDelay(initialDelay, i - 1)

\* C8: the i-th sleep (between failed attempt i and attempt i+1) lasts
\* initialDelay * 2^(i-1); there is one sleep before each invocation after the
\* first and none after the final failed attempt.
C8_ExponentialBackoff ==
    /\ \A i \in 1 .. Len(rt.sleeps) : rt.sleeps[i] = DoubledDelay(rt.delay, i)
    /\ rt.pc \in {"call", "returned"} => Len(rt.sleeps) = rt.calls - 1
    /\ rt.pc = "sleeping" => (Len(rt.sleeps) = rt.calls /\ rt.calls < rt.maxRetries)
    /\ rt.pc = "thrown" => Len(rt.sleeps) = (IF rt.calls = 0 THEN 0 ELSE rt.calls - 1)

\* C8 witness: four attempts failed; the sleeps were 1x, 2x and 4x the initial
\* delay of 3, and none followed the fourth failure.
C8_Witness ==
    /\ rt.pc = "thrown" /\ rt.maxRetries = 4 /\ rt.delay = 3
    /\ rt.calls = 4 /\ rt.sleeps = <<3, 6, 12>>

\* the chat calls that have started
ChatCalls == {t \in ChatTasks : tasks[t].op = "chat"}

\* C9: within one chat call the external operations are first invoked in the
\* order listService, acknowledge, metadata, headers, fetch; each is first
\* invoked only after the previous one fulfilled; at most one is in flight; and
\* a call that ended with its last invoked step not fulfilled was rejected and
\* has nothing in flight.
C9_StepsInOrder ==
    \A t \in ChatCalls :
        LET c == tasks[t].chat
        IN /\ Len(c.first) <= Len(Steps)
           /\ \A i \in 1 .. Len(c.first) : c.first[i] = Steps[i]
           /\ \A i \in 2 .. Len(c.first) : Steps[i - 1] \in c.succeeded
           /\ Cardinality(c.inflight) <= 1
           /\ c.inflight \subseteq {tasks[t].pc}
           /\ tasks[t].pc = "done" =>
                 /\ c.inflight = {}
                 /\ (Len(c.first) > 0 /\ c.first[Len(c.first)] \notin c.succeeded)
                       => tasks[t].outcome.kind # "ok"

\* C9 witness: listService, acknowledge and metadata fulfilled, the headers
\* failed on both attempts allowed, and the call was rejected without a request.
C9_Witness ==
    \E t \in ChatCalls :
        /\ tasks[t].pc = "done"
        /\ tasks[t].chat.retries = 2 /\ tasks[t].chat.attempt = 2
        /\ tasks[t].chat.first = <<"listService", "acknowledge", "metadata", "headers">>
        /\ tasks[t].chat.succeeded = {"listService", "acknowledge", "metadata"}
        /\ tasks[t].outcome = UnexpectedError

\* C10 (as claimed): a chat call that never saw a provider (every listService
\* result empty) is rejected with a Network failure, and none of acknowledge,
\* metadata, headers, fetch was invoked; a call that went past the discovery
\* saw a non-empty list.
C10_EmptyDiscoveryIsNetworkFailure ==
    \A t \in ChatCalls :
        LET c == tasks[t].chat
        IN /\ c.allEmpty => (c.succeeded = {} /\ \A i \in 1 .. Len(c.first) : c.first[i] = "listService")
           /\ (tasks[t].pc = "done" /\ c.allEmpty) => tasks[t].outcome.kind = "Network"

\* the same for the calls in which listService was invoked at least once
C10_EmptyDiscoveryAfterAnAttempt ==
    \A t \in ChatCalls :
        LET c == tasks[t].chat
        IN /\ c.allEmpty => (c.succeeded = {} /\ \A i \in 1 .. Len(c.first) : c.first[i] = "listService")
           /\ (tasks[t].pc = "done" /\ c.allEmpty /\ c.listCalls >= 1)
                 => (tasks[t].outcome = NoServicesError /\ c.listCalls = c.retries)

\* C12: a chat call whose timer fired is aborting its request or was rejected
\* with the Network failure 'timed out after <timeout>ms' naming its timeout.
C12_TimeoutIsMarked ==
    \A t \in ChatCalls :
        tasks[t].chat.timer = "fired"
            => \/ tasks[t].pc = "fetch"
               \/ /\ tasks[t].pc = "done"
                  /\ tasks[t].outcome = TimedOutError(tasks[t].chat.timeout)

\* C12 witness: a call with options.timeout = 5 was rejected with 'timed out
\* after 5ms' after its timer had fired.
C12_Witness ==
    \E t \in ChatCalls :
        /\ tasks[t].pc = "done" /\ tasks[t].chat.timer = "fired"
        /\ tasks[t].outcome = TimedOutError(5)

\* C14 (as claimed): every chat call that started eventually settles.
C14_EveryCallSettles ==
    \A t \in ChatTasks : (tasks[t].op = "chat") ~> (tasks[t].pc = "done")

\* C16 (as claimed): a chat call whose message is refused is rejected with a
\* Configuration or Validation failure, having created no connection and
\* invoked nothing.
C16_InvalidMessageRejected ==
    \A t \in ChatCalls :
        ~tasks[t].chat.valid
            => /\ tasks[t].pc = "done"
               /\ tasks[t].outcome.kind \in {"Configuration", "Validation"}
               /\ tasks[t].asked = <<>> /\ tasks[t].run = 0
               /\ tasks[t].chat.first = <<>>

\* the calls of chat, useDeepseek and useLlama that have started
Calls == {t \in CallTasks : tasks[t].op \in {"chat", "useModel"}}
HelperCalls == {t \in CallTasks : tasks[t].op = "useModel"}
FourKinds == {"Configuration", "Network", "InsufficientFunds", "Validation"}

\* C11 (as claimed): a call that received a non-success status is rejected with
\* InsufficientFunds for 402 and 403 and with the Network failure carrying the
\* status for any other, and never resolves.
C11_StatusDecidesFailure ==
    \A t \in Calls :
        LET status == tasks[t].chat.status
        IN (tasks[t].pc = "done" /\ status # NoResponse /\ ~(status >= 200 /\ status <= 299))
              => tasks[t].outcome = (IF status \in {402, 403} THEN InsufficientFundsError
                                     ELSE HttpError(status))

\* C13: a timer is armed only while the request is in flight; no call of chat,
\* useDeepseek or useLlama is settled with its timer still armed.
C13_TimerDisarmedAtExit ==
    \A t \in Calls :
        /\ tasks[t].chat.timer = "armed" => tasks[t].pc = "fetch"
        /\ tasks[t].pc = "done" => tasks[t].chat.timer \in {"none", "cleared", "fired"}
        /\ (tasks[t].pc = "done" /\ "fetch" \in tasks[t].chat.succeeded)
              => tasks[t].chat.timer = "cleared"

\* C13 witness: the request of a call failed without a response, and the call
\* was rejected with its timer cleared.
C13_Witness ==
    \E t \in Calls :
        /\ tasks[t].pc = "done" /\ tasks[t].chat.timer = "cleared"
        /\ tasks[t].chat.first # <<>>
        /\ tasks[t].chat.first[Len(tasks[t].chat.first)] = "fetch"
        /\ "fetch" \notin tasks[t].chat.succeeded
        /\ tasks[t].outcome = UnexpectedError

\* C15 (as claimed): every rejection of chat, useDeepseek and useLlama has one
\* of the four kinds.
C15_OnlyFourKinds ==
    \A t \in Calls :
        (tasks[t].pc = "done" /\ tasks[t].outcome.kind # "ok")
            => tasks[t].outcome.kind \in FourKinds

Fallbacks == {"toolCalls", "reasoning", "apology"}

\* C17: a useDeepseek / useLlama call whose success response was parsed and has
\* a content that is absent, empty or blank resolves: with the tool-call
\* stand-in when there are tool calls, else with the reasoning when present,
\* else with the apology.
C17_FallbackPrecedence ==
    \A t \in HelperCalls :
        LET body == tasks[t].chat.body
        IN (body # None /\ body.content \in {"absent", "empty", "blank"})
              => /\ tasks[t].pc = "done"
                 /\ tasks[t].outcome.kind = "ok"
                 /\ tasks[t].outcome.via =
                       (IF body.toolCalls > 0 THEN "toolCalls"
                        ELSE IF body.reasoning # "absent" THEN "reasoning" ELSE "apology")
                 /\ tasks[t].outcome.via = "reasoning" => tasks[t].outcome.content = body.reasoning
                 /\ tasks[t].outcome.via = "toolCalls" => tasks[t].outcome.tools = body.toolCalls

\* C17 witness: a blank content with two tool calls and a reasoning resolved
\* with the stand-in for two tools.
C17_Witness ==
    \E t \in HelperCalls :
        /\ tasks[t].pc = "done"
        /\ tasks[t].chat.body = [parsed |-> TRUE, content |-> "blank", toolCalls |-> 2, reasoning |-> "text"]
        /\ tasks[t].outcome = Resolved("toolCalls", "stand-in", 2)

\* C18: a call resolves with a fallback only after every step fulfilled and
\* the request returned a success status without the timer firing; a call
\* with a failed step, an aborted request or a non-success status is rejected.
C18_FallbackOnlyAfterSuccess ==
    \A t \in Calls :
        /\ (tasks[t].pc = "done" /\ tasks[t].outcome.kind = "ok" /\ tasks[t].outcome.via \in Fallbacks)
              => /\ tasks[t].op = "useModel"
                 /\ tasks[t].chat.status >= 200 /\ tasks[t].chat.status <= 299
                 /\ {"listService", "acknowledge", "metadata", "headers", "fetch"}
                        \subseteq tasks[t].chat.succeeded
                 /\ tasks[t].chat.timer = "cleared"
        /\ (tasks[t].pc = "done" /\ ~(tasks[t].chat.status >= 200 /\ tasks[t].chat.status <= 299))
              => tasks[t].outcome.kind # "ok"

\* C18 witness: a useDeepseek / useLlama call resolved with the apology after
\* a response of status 200.
C18_Witness ==
    \E t \in HelperCalls :
        /\ tasks[t].pc = "done" /\ tasks[t].chat.status = 200
        /\ tasks[t].outcome = Resolved("apology", "apology", 0)

\* the model name contains the name, whatever the case of the letters
SameLetter(a, b) == a = b \/ a = b + 10 \/ b = a + 10
ContainsIgnoringCase(str, sub) ==
    \E i \in 0 .. Len(str) - Len(sub) : \A j \in 1 .. Len(sub) : SameLetter(str[i + j], sub[j])
\* the services listed for a call, before position i, taken from set S
MatchingBefore(c, i, S) ==
    {j \in 1 .. i - 1 : c.services[j] \in S /\ ContainsIgnoringCase(ModelOf(c.services[j]), c.modelName)}
Listed(c) == {c.services[j] : j \in 1 .. Len(c.services)}
Found(t) == tasks[t].chat.phase = "send"

\* C19 (as claimed): the provider findModelProvider returns is the first
\* service of the list whose model contains the name, whatever the case.
C19_FirstMatchWins ==
    \A t \in HelperCalls :
        LET c == tasks[t].chat
        IN Found(t) =>
             \E i \in 1 .. Len(c.services) :
                 /\ c.services[i] = c.provider
                 /\ ContainsIgnoringCase(ModelOf(c.provider), c.modelName)
                 /\ MatchingBefore(c, i, Listed(c)) = {}

\* C19 (amended): the provider returned is the first service of the list whose
\* metadata call succeeded and whose model contains the name, whatever the
\* case; and when no provider is found, every matching service was skipped.
C19_FirstReachableMatchWins ==
    \A t \in HelperCalls :
        LET c == tasks[t].chat
        IN /\ Found(t) =>
                \E i \in 1 .. Len(c.services) :
                    /\ c.services[i] = c.provider
                    /\ c.provider \notin c.skipped
                    /\ ContainsIgnoringCase(ModelOf(c.provider), c.modelName)
                    /\ MatchingBefore(c, i, Listed(c) \ c.skipped) = {}
           /\ (tasks[t].pc = "done" /\ tasks[t].outcome = NoProviderError)
                => MatchingBefore(c, Len(c.services) + 1, Listed(c) \ c.skipped) = {}

\* C19 witness: 'llama' over the single service 1 (Llama-3) found it despite
\* the capital letter.
C19_Witness ==
    \E t \in HelperCalls :
        /\ Found(t) /\ tasks[t].chat.modelName = LlamaName
        /\ tasks[t].chat.services = <<1>> /\ tasks[t].chat.provider = 1

\* the withdrawals of an amount that validateAmount accepts
Withdrawals == {t \in LedgerTasks : tasks[t].op = "withdraw" /\ tasks[t].chat.amount > 0}

\* C20: a withdrawal is rejected with InsufficientFunds whenever the last
\* failure of the refund has 'insufficient' in its message, whatever the case
\* of the letters, and with a Network failure for any other failure of the
\* refund and for a failure of the initialization.
C20_InsufficientFundsOnWithdraw ==
    \A t \in Withdrawals :
        (tasks[t].pc = "done" /\ tasks[t].outcome.kind # "ok")
            => tasks[t].outcome.kind =
                 (IF /\ tasks[t].chat.first # <<>>
                     /\ ContainsIgnoringCase(tasks[t].chat.lastText, InsufficientWord)
                  THEN "InsufficientFunds" ELSE "Network")

\* C20 witness: the second attempt of the refund failed with 'Insufficient'
\* (capital letter), and the withdrawal was rejected with InsufficientFunds.
C20_Witness ==
    \E t \in Withdrawals :
        /\ tasks[t].pc = "done" /\ tasks[t].chat.attempt = 2
        /\ tasks[t].chat.lastText = <<Capital(7), 8>>
        /\ tasks[t].outcome = WithdrawInsufficientError

\* the chat calls among the calls of the single caller
LoneChatCalls == {t \in CallTasks : tasks[t].op = "chat"}

\* C21 (as claimed): the timeout and the retries a chat call works with are the
\* option of the call when given, else the value configured on the connection
\* the call uses, also when this call created the connection.
C21_EffectiveTimeoutAndRetries ==
    \A t \in LoneChatCalls :
        LET c == tasks[t].chat
        IN tasks[t].obj # 0
              => /\ c.timeout = (IF c.optTimeout # None THEN c.optTimeout[1]
                                 ELSE instances[tasks[t].obj].config.timeout)
                 /\ c.retries = (IF c.optRetries # None THEN c.optRetries[1]
                                 ELSE instances[tasks[t].obj].config.retries)

\* the object's latest initialization sequence was rejected and the caller
\* that started it has resumed
InitFailed(o) ==
    /\ instances[o].initPromise # 0
    /\ runs[instances[o].initPromise].pc = "rejected"
    /\ runs[instances[o].initPromise].starterResumed

\* C22: a caller whose initialization failed holds the Network failure that
\* wraps the failure of that sequence; after a failed sequence the connection
\* is neither ready nor initializing, so that the next init() starts a fresh
\* sequence; and a sequence starts only in a step in which a caller calls
\* init(), never by itself.
C22_FailedInitCanBeRepeated ==
    /\ [](/\ \A t \in Tasks :
               (tasks[t].initResult # Undef /\ tasks[t].initResult.kind # "ok")
                  => /\ tasks[t].initResult = NetworkInitError(tasks[t].run)
                     /\ runs[tasks[t].run].pc = "rejected"
                     /\ tasks[t].pc = "done" /\ tasks[t].outcome = NetworkInitError(tasks[t].run)
          /\ \A o \in Objects :
               InitFailed(o) => /\ ~instances[o].initialized /\ ~instances[o].initializing
                                /\ InitDispatch(instances[o]) = "start")
    /\ [][Len(runs') > Len(runs)
             => \E t \in Tasks : /\ tasks[t].pc = "getBroker" /\ tasks'[t].pc = "initStarter"
                                 /\ tasks'[t].run = Len(runs')
                                 /\ runs'[Len(runs')].obj = tasks'[t].obj]_vars

\* C22 witness: the first sequence of a connection was rejected after its
\* retries were used up, its caller got the Network failure, and a second
\* sequence on the same connection, started by a later caller, succeeded and
\* gave that caller the broker.
C22_Witness ==
    /\ Len(runs) = 2
    /\ runs[1].obj = runs[2].obj
    /\ runs[1].pc = "rejected" /\ runs[1].attempt = DefaultRetries
    /\ runs[2].pc = "resolved"
    /\ tasks[1].pc = "done" /\ tasks[1].outcome = NetworkInitError(1)
    /\ tasks[2].pc = "done" /\ tasks[2].outcome = [kind |-> "ok", broker |-> 2]
    /\ instances[runs[1].obj].initialized

\* C23: a ready connection stays ready and keeps its broker handle; no
\* initialization sequence of it is in flight or starts, no activation deposit
\* is called for it, and a caller that acquires the broker of a ready
\* connection is handed that same handle.
C23_ReadyForGood ==
    /\ [](\A o \in Objects :
            instances[o].initialized
               => /\ instances[o].broker # 0
                  /\ runs[instances[o].broker].pc = "resolved"
                  /\ InFlight(o) = {}
                  /\ \A t \in Tasks :
                       (tasks[t].obj = o /\ tasks[t].op = "acquire" /\ tasks[t].pc = "done"
                          /\ tasks[t].outcome.kind = "ok")
                          => tasks[t].outcome.broker = instances[o].broker)
    /\ [][\A o \in Objects :
            instances[o].initialized
               => /\ o \in 1 .. Len(instances')
                  /\ instances'[o].initialized
                  /\ instances'[o].broker = instances[o].broker
                  /\ \A r \in 1 .. Len(runs') : runs'[r].obj = o => (r \in RunIds /\ runs'[r].pc = runs[r].pc)
                  /\ ledger'[instances[o].walletAddress].calls
                        = ledger[instances[o].walletAddress].calls]_vars

\* C23 witness: a second caller asked for the broker of a connection that was
\* ready, started nothing and got the handle the first caller got.
C23_Witness ==
    /\ Len(runs) = 1 /\ runs[1].pc = "resolved"
    /\ instances[runs[1].obj].initialized
    /\ tasks[1].pc = "done" /\ tasks[1].outcome = [kind |-> "ok", broker |-> 1]
    /\ tasks[2].pc = "done" /\ tasks[2].initResult = [kind |-> "ok", run |-> 0]
    /\ tasks[2].outcome = [kind |-> "ok", broker |-> 1]

\* C24: while state.json is absent or unparsable every read yields the default
\* record, and a connection created then starts with the activation not
\* recorded; while it is unwritable no write changes it; and no caller of
\* getInstance, init or getBroker ends otherwise than with the broker or with
\* the failure of its initialization sequence.
C24_StoreFailuresTolerated ==
    /\ [](/\ disk.file # "json" => \A a \in Addresses : GetWalletState(a) = DefaultWalletState
          /\ \A t \in StoreTasks :
               tasks[t].pc = "done"
                  => \/ tasks[t].outcome.kind = "ok"
                     \/ /\ tasks[t].run # 0 /\ runs[tasks[t].run].pc = "rejected"
                        /\ tasks[t].outcome = NetworkInitError(tasks[t].run))
    /\ [][/\ ~disk.writable => store' = store
          /\ (Len(instances') > Len(instances) /\ disk.file # "json")
                => /\ ~instances'[Len(instances')].autoDepositCompleted
                   /\ \E t \in StoreTasks : tasks'[t].got = Len(instances')]_vars

\* C24 witness: the process was restarted on a state file that had recorded
\* the activation and then became unparsable and unwritable; a caller got the
\* broker of a connection created from the default record, after a second
\* activation deposit, and the file still holds what was written before.
C24_Witness ==
    /\ restarts = 1
    /\ disk = [file |-> "garbage", writable |-> FALSE]
    /\ \E t \in StoreTasks :
          /\ tasks[t].pc = "done" /\ tasks[t].op = "acquire" /\ tasks[t].outcome.kind = "ok"
          /\ LET a == instances[tasks[t].obj].walletAddress
             IN /\ ledger[a].ok = 2
                /\ a \in DOMAIN store /\ store[a].autoDepositCompleted

\* the started calls of the two concurrent callers
PairCalls == {t \in PairTasks : tasks[t].op = "chat"}

\* a chat call whose timeout came into play in this step: its timer fired, or
\* it was rejected as timed out
TimeoutStep(t) ==
    \/ tasks[t].chat.timer = "armed" /\ tasks'[t].chat.timer = "fired"
    \/ /\ tasks[t].pc # "done" /\ tasks'[t].pc = "done"
       /\ tasks'[t].outcome = TimedOutError(tasks[t].chat.timeout)

\* C25: the step in which the timer of a chat call fires, and the step in which
\* that call is rejected as timed out, change nothing of any other call and
\* nothing of the connections; and a call is rejected as timed out, or has its
\* request aborted, only when its own timer fired.
C25_TimeoutIsPerCall ==
    /\ [](\A t \in PairCalls :
             /\ (tasks[t].pc = "done" /\ tasks[t].outcome.kind # "ok"
                    /\ tasks[t].outcome.msg = "timed out after")
                   => tasks[t].chat.timer = "fired"
             /\ (tasks[t].pc \in {"text", "json"}
                    \/ (tasks[t].pc = "done" /\ "fetch" \in tasks[t].chat.succeeded))
                   => tasks[t].chat.timer = "cleared")
    /\ [][\A t \in PairTasks :
             TimeoutStep(t) => /\ \A u \in PairTasks \ {t} : tasks'[u] = tasks[u]
                               /\ instances' = instances /\ runs' = runs
                               /\ globalClient' = globalClient]_vars

\* C25 witness: two calls share the ready connection; the request of the first
\* has been aborted by its timer while the second, whose request was sent
\* before, has received its response and is reading the body.
C25_Witness ==
    /\ globalClient # 0 /\ instances[globalClient].initialized
    /\ tasks[1].obj = globalClient /\ tasks[2].obj = globalClient
    /\ tasks[1].pc = "fetch" /\ tasks[1].chat.timer = "fired"
    /\ tasks[2].pc = "json" /\ tasks[2].chat.status = 200 /\ tasks[2].chat.timer = "cleared"

\* C26: an initialization whose activation deposit failed has succeeded after
\* calling the deposit exactly once; once its caller has resumed the
\* connection is ready; and the activation is recorded neither on the
\* connection nor in the state file.
C26_FailedDepositIsNotFatal ==
    \A r \in RunIds :
        runs[r].deposit = "failed"
            => LET inst == instances[runs[r].obj]
               IN /\ runs[r].pc = "resolved" /\ runs[r].deposits = 1
                  /\ inst.broker = r
                  /\ runs[r].starterResumed => (inst.initialized /\ ~inst.initializing)
                  /\ ~inst.autoDepositCompleted
                  /\ ~Persisted(inst.walletAddress)
                  /\ ledger[inst.walletAddress].calls = 1 /\ ledger[inst.walletAddress].ok = 0
                  /\ \A t \in Tasks :
                       (tasks[t].run = r /\ tasks[t].initResult # Undef)
                          => tasks[t].initResult = [kind |-> "ok", run |-> r]

\* C26 witness: the activation deposit of the only initialization failed, and
\* its caller was handed the broker of a ready connection.
C26_Witness ==
    /\ Len(runs) = 1 /\ runs[1].deposit = "failed" /\ runs[1].starterResumed
    /\ instances[runs[1].obj].initialized
    /\ \E t \in Tasks : /\ tasks[t].pc = "done" /\ tasks[t].run = 1
                        /\ tasks[t].outcome = [kind |-> "ok", broker |-> 1]

\* C27: in a useDeepseek / useLlama call the services whose metadata call
\* failed are among those examined so far and the search goes on after them; a
\* call rejected with 'No provider found for model' has examined every listed
\* service, each of which failed to answer or does not match, and has invoked
\* nothing but listService and the metadata calls of the search.
C27_SearchSurvivesFailures ==
    \A t \in HelperCalls :
        LET c == tasks[t].chat
        IN /\ c.skipped \subseteq {c.services[j] : j \in 1 .. c.probe}
           /\ (tasks[t].pc = "done" /\ tasks[t].outcome = NoProviderError)
                 => /\ c.probe = Len(c.services)
                    /\ \A j \in 1 .. Len(c.services) :
                          \/ c.services[j] \in c.skipped
                          \/ ~ContainsIgnoringCase(ModelOf(c.services[j]), c.modelName)
                    /\ \A i \in 1 .. Len(c.first) : c.first[i] \in {"listService", "probe"}
                    /\ c.succeeded \subseteq {"listService"}
                    /\ c.timer = "none"
           /\ (tasks[t].pc = "done" /\ c.phase = "find" /\ c.probe = Len(c.services)
                  /\ c.services # <<>> /\ "probe" \notin c.inflight
                  /\ tasks[t].outcome.kind # "ok")
                 => tasks[t].outcome = NoProviderError

\* C27 witness: 'llama' over the services 3, 1, 2: the metadata call of the
\* first failed, the second was returned, and the call resolved through it.
C27_Witness ==
    \E t \in HelperCalls :
        /\ tasks[t].chat.modelName = LlamaName /\ tasks[t].chat.services = <<3, 1, 2>>
        /\ tasks[t].chat.skipped = {3} /\ tasks[t].chat.provider = 1
        /\ tasks[t].pc = "done" /\ tasks[t].outcome.kind = "ok"

\* the listed services that serve the model asked for
Serving(c) ==
    {c.services[j] : j \in {i \in 1 .. Len(c.services) :
                              ContainsIgnoringCase(ModelOf(c.services[i]), c.optModel[1])}}

\* C28 (as claimed): once the services are listed, the provider of a chat call
\* is the provider option when given, else a listed provider serving the model
\* option when one is given and served, else the first listed service; and no
\* other address is passed to acknowledgeProviderSigner, getServiceMetadata and
\* getRequestHeaders.
C28_ExplicitChoicePreferred ==
    \A t \in LoneChatCalls :
        LET c == tasks[t].chat
        IN c.services # <<>>
              => /\ c.passed \subseteq {c.provider}
                 /\ IF c.providerOpt # 0 THEN c.provider = c.providerOpt
                    ELSE IF c.optModel # None /\ Serving(c) # {} THEN c.provider \in Serving(c)
                    ELSE c.provider = c.services[1]

\* C29: a chat call sends at most one HTTP request; the request carries the
\* header set this call obtained from getRequestHeaders, which succeeded for
\* the call's provider and for the very message in the body, after the message
\* was validated; and no two calls send the same header set.
C29_HeadersAreSingleUse ==
    /\ \A t \in PairCalls :
          LET c == tasks[t].chat
          IN /\ Len(c.requests) <= 1
             /\ \A i \in 1 .. Len(c.requests) :
                   /\ c.valid /\ "headers" \in c.succeeded
                   /\ c.requests[i].headers # None
                   /\ c.requests[i].headers[1].call = t
                   /\ c.requests[i].headers[1].provider = c.provider
                   /\ c.requests[i].headers[1].provider \in c.passed
                   /\ c.requests[i].headers[1].message = c.requests[i].message
                   /\ c.requests[i].message = c.message
    /\ \A t \in PairCalls : \A u \in PairCalls \ {t} :
          \A i \in 1 .. Len(tasks[t].chat.requests), j \in 1 .. Len(tasks[u].chat.requests) :
              tasks[t].chat.requests[i].headers # tasks[u].chat.requests[j].headers

\* C29 witness: both calls sent their request for the same message to the same
\* provider, each with the header set of its own getRequestHeaders call; the
\* request of the first failed and was not sent again.
C29_Witness ==
    /\ Len(tasks[1].chat.requests) = 1 /\ Len(tasks[2].chat.requests) = 1
    /\ tasks[1].chat.provider = tasks[2].chat.provider
    /\ tasks[1].chat.requests[1].headers[1].call = 1
    /\ tasks[2].chat.requests[1].headers[1].call = 2
    /\ tasks[1].pc = "done" /\ tasks[1].outcome = UnexpectedError
    /\ "fetch" \notin tasks[1].chat.succeeded

\* the deposits that have started
Deposits == {t \in LedgerTasks : tasks[t].op = "deposit"}

\* C30: a deposit invokes the ledger deposit at most as many times as the
\* retries configured on its connection, and not at all before it has one; no
\* invocation follows one that succeeded; a deposit that resolved made exactly
\* one successful invocation, and one that was rejected made none.
C30_DepositWithinBudget ==
    \A t \in Deposits :
        LET c == tasks[t].chat
        IN /\ c.depositCalls <= (IF tasks[t].obj = 0 THEN 0
                                 ELSE instances[tasks[t].obj].config.retries)
           /\ c.depositOks <= 1
           /\ c.depositOks = 1 => (tasks[t].pc = "done" /\ "depositFund" \notin c.inflight)
           /\ tasks[t].pc = "done" => c.depositOks = (IF tasks[t].outcome.kind = "ok" THEN 1 ELSE 0)
           /\ (tasks[t].pc = "done" /\ tasks[t].outcome.kind # "ok" /\ c.depositCalls > 0)
                 => /\ tasks[t].outcome = DepositFailedError
                    /\ c.depositCalls = instances[tasks[t].obj].config.retries

\* C30 witness: with retries = 2 the first invocation of the ledger deposit
\* failed, the second succeeded, and the deposit resolved.
C30_Witness ==
    \E t \in Deposits :
        /\ tasks[t].pc = "done" /\ tasks[t].outcome.kind = "ok"
        /\ instances[tasks[t].obj].config.retries = 2
        /\ tasks[t].chat.depositCalls = 2 /\ tasks[t].chat.depositOks = 1

\* the deposits and withdrawals that have started
LedgerCalls == {t \in LedgerTasks : tasks[t].op \in LedgerOps}

C32_VariantsAgree ==
    (rt.pc = "thrown" /\ rt.legacy.pc = "thrown" /\ rt.succeedsAt = 0)
        => /\ rt.legacy.calls = rt.calls
           /\ rt.calls = rt.maxRetries
           /\ rt.legacy.sleeps = rt.sleeps

\* C33: a chat call whose success response was parsed and has a content that
\* is absent or empty is rejected with the Network failure 'Invalid response
\* format', whatever tool calls or reasoning the body holds; a chat call that
\* resolves does so with the content of its response, never with a fallback.
C33_ChatHasNoFallback ==
    \A t \in LoneChatCalls :
        LET body == tasks[t].chat.body
        IN /\ (body # None /\ body.content \in {"absent", "empty"})
                 => /\ tasks[t].pc = "done"
                    /\ tasks[t].outcome = InvalidFormatError
                    /\ tasks[t].outcome.kind = "Network"
           /\ (tasks[t].pc = "done" /\ tasks[t].outcome.kind = "ok")
                 => /\ tasks[t].outcome.via = "content"
                    /\ body # None /\ tasks[t].outcome.content = body.content
                    /\ ~ContentFalsy(body.content)

\* C33 witness: a chat call rejected for the format of a response of status
\* 200 that holds two tool calls and a reasoning but no content.
C33_Witness ==
    \E t \in LoneChatCalls :
        /\ tasks[t].pc = "done" /\ tasks[t].chat.status = 200
        /\ tasks[t].chat.body = [parsed |-> TRUE, content |-> "absent", toolCalls |-> 2, reasoning |-> "text"]
        /\ tasks[t].outcome = InvalidFormatError

\* the getBroker calls that returned the broker of a connection of identity a
Acquired(a) ==
    {t \in Tasks : /\ tasks[t].op = "acquire" /\ tasks[t].pc = "done"
                   /\ tasks[t].outcome.kind = "ok"
                   /\ instances[tasks[t].obj].walletAddress = a}

\* C34 (as claimed): in a process that started with no record, the persisted
\* totalRequests of an identity is the number of getBroker calls that
\* succeeded for it; failed calls and calls still under way count nothing.
C34_CounterCountsAcquisitions ==
    \A a \in Addresses :
        (IF a \in DOMAIN store THEN store[a].totalRequests ELSE 0) = Cardinality(Acquired(a))

\* C35 (as claimed): a withRetry call invokes the operation at least once
\* whatever maxAttempts is, and when it rejects, it rejects with the failure
\* one of its invocations threw.
C35_AtLeastOneInvocation ==
    (rt.pc # "idle")
        => /\ rt.calls >= 1
           /\ rt.pc = "thrown"
                 => /\ rt.result # Undef
                    /\ \E n \in 1 .. rt.calls : rt.result = [error |-> n]

\* C36 (as claimed): with processes sharing the store in any interleaving, a
\* record that shows autoDepositCompleted stays in the store and keeps
\* showing it, and a step that changes the record of one identity changes the
\* record of no other.
C36_ActivationFlagIsKept ==
    [][\A a \in Addresses :
          /\ (a \in DOMAIN store /\ store[a].autoDepositCompleted)
                => (a \in DOMAIN store' /\ store'[a].autoDepositCompleted)
          /\ \A b \in Addresses \ {a} :
                (a \in DOMAIN store' /\ (a \notin DOMAIN store \/ store'[a] # store[a]))
                    => /\ b \in DOMAIN store <=> b \in DOMAIN store'
                       /\ b \in DOMAIN store => store'[b] = store[b]]_vars

\* the initialization sequences of connection o that called addLedger
Activations(o) == {r \in 1 .. Len(runs) : runs[r].obj = o /\ runs[r].deposits > 0}

\* C37: within one process, whatever sequences failed or succeeded, however
\* many callers there are and whatever happens to the state file, addLedger is
\* called at most once for each connection object.
C37_OneDepositPerConnection ==
    /\ \A r \in 1 .. Len(runs) : runs[r].deposits <= 1
    /\ \A o \in 1 .. Len(instances) : Cardinality(Activations(o)) <= 1

\* C37 witness: a connection whose first sequence failed, whose second made
\* the deposit, which failed, with the state file unreadable, and whose
\* broker a caller received.
C37_Witness ==
    \E o \in 1 .. Len(instances), t \in Tasks :
        /\ Len(runs) >= 2
        /\ runs[1].obj = o /\ runs[1].pc = "rejected"
        /\ runs[2].obj = o /\ runs[2].deposit = "failed"
        /\ disk.file = "garbage"
        /\ tasks[t].obj = o /\ tasks[t].op = "acquire" /\ tasks[t].pc = "done"
        /\ tasks[t].outcome.kind = "ok"

\* C38 (as claimed): once an initZeroG(config) call has resolved, the
\* connection it made the global one holds the autoDeposit and the retries of
\* that config (the default where the config names none), whatever calls came
\* before.
C38_LastConfigurationWins ==
    \A t \in Tasks :
        (tasks[t].op = "initZeroG" /\ tasks[t].pc = "done")
            => /\ instances[tasks[t].got].config.autoDeposit = tasks[t].wanted[1]
               /\ instances[tasks[t].got].config.retries =
                     (IF tasks[t].wanted[2] = None THEN DefaultRetries ELSE tasks[t].wanted[2][1])

\* the balance queries that returned
BalanceCalls(op) ==
    {t \in BalanceTasks : tasks[t].op = op /\ tasks[t].pc = "done" /\ tasks[t].outcome.kind = "ok"}

\* what a returned text stands for, in units
Units(text) == text.whole * UnitsPerEther + text.tenths

\* C39 (as claimed): getAvailableBalance returns the total balance minus the
\* locked balance of the account it read: never more than what can be
\* withdrawn from it, and together with what getLockedBalance returns for the
\* same account, what getBalance returns for it.
C39_AvailableIsTotalMinusLocked ==
    \A t \in BalanceCalls("getAvailableBalance") :
        LET account == tasks[t].outcome.account
        IN /\ tasks[t].outcome.balance = FormatEther(account.totalBalance - account.locked)
           /\ Units(tasks[t].outcome.balance) <= account.totalBalance - account.locked
           /\ \A v \in BalanceCalls("getLockedBalance") :
                 tasks[v].outcome.account = account
                    => Units(tasks[t].outcome.balance) + Units(tasks[v].outcome.balance)
                          = account.totalBalance

\* C40: between any two steps, a connection that is initializing has its
\* promise set, to a sequence of its own that has not been consumed, and is
\* not ready, so that init() takes the 'already in progress' branch for no
\* connection and no caller is rejected with that failure; and a connection
\* that is ready holds a broker.
C40_FlagsAreConsistent ==
    /\ \A o \in Objects :
         LET inst == instances[o]
         IN /\ inst.initializing
                 => /\ inst.initPromise # 0 /\ inst.initPromise \in 1 .. Len(runs)
                    /\ runs[inst.initPromise].obj = o
                    /\ ~inst.initialized
            /\ InitDispatch(inst) # "throw"
            /\ inst.initialized => inst.broker # 0
    /\ \A t \in Tasks :
         /\ tasks[t].initResult # InitInProgressError
         /\ tasks[t].outcome # InitInProgressError

\* C40 witness: while a connection is initializing, its sequence under way,
\* a second caller of init() has received the promise of that sequence.
C40_Witness ==
    \E o \in Objects, t \in Tasks :
        /\ instances[o].initializing /\ ~instances[o].initialized
        /\ ~Settled(runs[instances[o].initPromise])
        /\ tasks[t].pc = "initWaiter" /\ tasks[t].obj = o /\ tasks[t].run = instances[o].initPromise

====
